---------------------------- MODULE Spec2Model ----------------------------
(***************************************************************************)
(* A model of the session and connection lifecycle layer of the VAST       *)
(* services backend:                                                       *)
(*   - RateLimiterMiddleware      (backend/middleware/rate_limiter.py)     *)
(*   - VastDbService              (backend/services/vastdb_service.py)     *)
(*   - AuthHandler                (backend/middleware/auth_middleware.py)  *)
(* Text is modelled as sequences of one-character strings wherever the     *)
(* code looks inside it (split, strip, endswith, int).                     *)
(***************************************************************************)
EXTENDS Integers, Sequences, FiniteSets, TLC

(***************************************************************************)
(* Bounds of the model.                                                    *)
(***************************************************************************)
\* RateLimiterMiddleware(calls=..., period=...): the limit and the window,
\* scaled down from the deployed 100 calls / 900 seconds.
calls == 2
period == 2
\* The last reading of time.time() the rate limiter's clock reaches.
MaxTime == 3
\* The number of requests the event loop handles at the same time.
MaxInFlight == 2
\* The number of store operations the event loop has in progress at the same time.
MaxCallers == 2
\* The count of vastdb.connect invocations saturates here.
MaxConnectCalls == 3
\* The last reading of datetime.utcnow() the token clock reaches, in minutes.
MaxUtc == 62
\* The last reading of datetime.utcnow() the schema operations reach.
MaxDbClock == 2
\* The session clock is read in steps of this many hours.
HoursPerTick == 4
\* The last reading of time.time() the session clock reaches, in steps.
MaxClock == 3
\* authenticate neither starts nor is still running after this reading of the
\* session clock.
MaxLoginTime == 0
\* The requests that can be inside VastService at once.
MaxSvcCallers == 1
\* The logins in flight at once where two users log in concurrently.
MaxLoginCallers == 2
\* encode_token neither starts nor is still running after this reading of the
\* clock.
MaxMintTime == 1
\* The last reading of datetime.utcnow() reached while tokens are presented to
\* authenticate_token, in minutes.
MaxTokenUtc == 3
\* The count of answered logouts saturates here.
MaxLogouts == 1
\* The requests the application downstream of the rate limiter serves.
MaxServed == 3
\* The longest text of settings.JWT_EXPIRES_IN the lifetime parser is given.
MaxLifetimeLen == 3

VARIABLES
    \* ---- RateLimiterMiddleware ----
    requests,   \* self.requests: client key -> deque of admitted timestamps
    now,        \* the reading of time.time()
    rpc,        \* per request in flight: its position in dispatch
    rkey,       \* per request in flight: the client key dispatch derived
    response,   \* the response sent last: the client key and the status code
    admitted,   \* history: client key -> every timestamp ever admitted, in order
    \* ---- VastDbService ----
    settings,             \* config.settings: the four required VAST_* values
    vastdb_available,     \* self.vastdb_available
    vastdb_error,         \* self.vastdb_error
    session,              \* self.session
    connection_attempted, \* self._connection_attempted
    connection_error,     \* self._connection_error
    connect_calls,        \* history: how often vastdb.connect was invoked
    dpc,                  \* per caller: idle, pending (operation awaited), done
    dcall,                \* per caller: the operation and its options
    dfirst,               \* per caller: the service was uninitialized when it began
    dresult,              \* per caller: what the operation returned
    \* ---- AuthHandler ----
    jwt_expires_in,  \* settings.JWT_EXPIRES_IN
    utc,             \* the reading of datetime.utcnow(), in whole minutes
    mpc,             \* encode_token: "idle", or "exp" once line 27 has run
    payload,         \* encode_token: the payload dict it was given, as it stands
    minted,          \* the tokens minted: <<>> or the last one with its claims
    mint_error,      \* the exception the last encode_token raised, or None
    verdict,         \* the last decode_token: what was presented, when, the outcome
    \* ---- VastService ----
    clients,   \* self.clients: client key -> cached session entry
    clock,     \* the reading of time.time(), in steps of HoursPerTick hours
    vpc,       \* per caller: "idle", or the await it is suspended at
    vcall,     \* per caller: the operation it is in, with its arguments
    vsent,     \* per caller: the HTTP requests the operation has issued so far
    vlast,     \* what the step just taken returned to its caller, if it returned
    \* ---- schema operations ----
    bucket,    \* the store: the names of the schemas in the bucket
    tables,    \* the store: <<schema, table>> -> the arrow fields of the table
    dbclock,   \* the reading of datetime.utcnow() of the schema operations
    sreply,    \* the last schema operation: the call, the result, the HTTP status
    \* ---- error handlers ----
    node_env,  \* settings.NODE_ENV
    handled,   \* the last two errors handled, each with the handler and its answer
    \* ---- authenticate_token, logout ----
    authn,     \* the last authenticate_token call: token, time, outcome, state then
    logouts,   \* history: the replies POST /auth/logout has given
    served     \* the request the application served last, and how many it served

rlvars == <<requests, now, rpc, rkey, response, admitted>>

dbvars == <<settings, vastdb_available, vastdb_error, session, connection_attempted,
            connection_error, connect_calls, dpc, dcall, dfirst, dresult>>

authvars == <<jwt_expires_in, utc, mpc, payload, minted, mint_error, verdict>>

svcvars == <<clients, clock, vpc, vcall, vsent, vlast>>

schemavars == <<bucket, tables, dbclock, sreply>>

errvars == <<node_env, handled>>

tokenvars == <<authn, logouts, served>>

vars == <<rlvars, dbvars, authvars, svcvars, schemavars, errvars, tokenvars>>

\* What the actions of one component leave alone: the other components.
not_rl == <<dbvars, authvars, svcvars, schemavars, errvars, tokenvars>>
not_db == <<rlvars, authvars, svcvars, schemavars, errvars, tokenvars>>
not_auth == <<rlvars, dbvars, svcvars, schemavars, errvars, tokenvars>>
not_svc == <<rlvars, dbvars, authvars, schemavars, errvars, tokenvars>>
not_schema == <<rlvars, authvars, svcvars, errvars, tokenvars>>
not_err == <<rlvars, dbvars, authvars, svcvars, schemavars, tokenvars>>
not_token == <<rlvars, dbvars, authvars, svcvars, schemavars, errvars>>

(***************************************************************************)
(* Text helpers.                                                           *)
(***************************************************************************)
\* Python's None where the model looks inside a text: a sequence that is no
\* text, its one element not being a character.
Absent == <<"None">>

\* Python's None where a text is only stored and compared.
None == "None"

RECURSIVE FirstField(_)
\* forwarded.split(",")[0]: the text before the first comma.
FirstField(s) ==
    IF s = <<>> \/ Head(s) = "," THEN <<>>
    ELSE <<Head(s)>> \o FirstField(Tail(s))

RECURSIVE LStrip(_)
LStrip(s) == IF s # <<>> /\ Head(s) = " " THEN LStrip(Tail(s)) ELSE s

RECURSIVE RStrip(_)
RStrip(s) ==
    IF s # <<>> /\ s[Len(s)] = " " THEN RStrip(SubSeq(s, 1, Len(s) - 1)) ELSE s

\* str.strip(): leading and trailing blanks removed.
Strip(s) == RStrip(LStrip(s))

(***************************************************************************)
(* RateLimiterMiddleware                                                   *)
(***************************************************************************)
Reqs == 1 .. MaxInFlight

Unknown == <<"u", "n", "k", "n", "o", "w", "n">>

\* The X-Forwarded-For header values and peer addresses requests arrive with.
ForwardedValues == {Absent, <<" ", "a", ",", "b">>}
ClientHosts == {Absent, <<"a">>}
HttpRequests == [forwarded : ForwardedValues, client : ClientHosts]

\* A mutation of get_client_ip: the peer address is preferred to the header.
get_client_ip_peer_first(request) ==
    IF request.client # Absent THEN request.client
    ELSE IF request.forwarded # Absent /\ request.forwarded # <<>>
    THEN Strip(FirstField(request.forwarded))
    ELSE Unknown

get_client_ip(request) ==
    IF request.forwarded # Absent /\ request.forwarded # <<>>
    THEN Strip(FirstField(request.forwarded))
    ELSE IF request.client # Absent THEN request.client ELSE Unknown

\* self.requests is a defaultdict(deque): reading a missing key gives an empty deque.
Deque(reqs, k) == IF k \in DOMAIN reqs THEN reqs[k] ELSE <<>>

Log(k) == IF k \in DOMAIN admitted THEN admitted[k] ELSE <<>>

\* A mutation of Put: storing one key's deque forgets every other key.
PutAlone(f, k, v) == [x \in {k} |-> v]

\* A mutation of Put: a key that has a value keeps it.
PutIfAbsent(f, k, v) == [x \in DOMAIN f \cup {k} |-> IF x \in DOMAIN f THEN f[x] ELSE v]

\* self.requests[client_ip] is (re)bound: every other key keeps its deque.
Put(f, k, v) == [x \in DOMAIN f \cup {k} |-> IF x = k THEN v ELSE f[x]]

\* A mutation of IsOld: the window boundary itself is evicted.
IsOldInclusive(ts, cutoff_time) == ts <= cutoff_time

\* self.requests[client_ip][0] < cutoff_time
IsOld(ts, cutoff_time) == ts < cutoff_time

RECURSIVE PopOld(_, _)
\* The while loop of clean_old_requests: popleft while the head is old.
PopOld(dq, cutoff_time) ==
    IF dq # <<>> /\ IsOld(Head(dq), cutoff_time)
    THEN PopOld(Tail(dq), cutoff_time)
    ELSE dq

\* A mutation of clean_old_requests: the cutoff lies in the future, so every
\* recorded timestamp is dropped.
clean_old_requests_sign(dq, current_time) == PopOld(dq, current_time + period)

clean_old_requests(dq, current_time) == PopOld(dq, current_time - period)

\* A mutation of LimitReached: one request too many passes.
LimitReachedOffByOne(n) == n > calls

\* len(self.requests[client_ip]) >= self.calls
LimitReached(n) == n >= calls

\* A mutation of admission: a request over the limit is forwarded all the
\* same, unrecorded.
admission_forwards(r, client_ip) ==
    LET current_time == now
        cleaned == clean_old_requests(Deque(requests, client_ip), current_time)
        over == LimitReached(Len(cleaned))
    IN  /\ requests' = Put(requests, client_ip,
                           IF over THEN cleaned ELSE Append(cleaned, current_time))
        /\ rpc' = [rpc EXCEPT ![r] = "call_next"]
        /\ rkey' = [rkey EXCEPT ![r] = client_ip]
        /\ admitted' = IF over THEN admitted
                       ELSE Put(admitted, client_ip, Append(Log(client_ip), current_time))
        /\ UNCHANGED response

\* Lines 30-43 of dispatch for the client key it derived: evict, check, record.
\* A rejected request is answered 429 at once; an admitted one goes on to its
\* only suspension point, `await call_next(request)`.
admission(r, client_ip) ==
    LET current_time == now
        cleaned == clean_old_requests(Deque(requests, client_ip), current_time)
    IN  IF LimitReached(Len(cleaned))
        THEN /\ requests' = Put(requests, client_ip, cleaned)
             /\ response' = [key |-> client_ip, status |-> 429]
             /\ UNCHANGED <<rpc, rkey, admitted>>
        ELSE /\ requests' = Put(requests, client_ip, Append(cleaned, current_time))
             /\ rpc' = [rpc EXCEPT ![r] = "call_next"]
             /\ rkey' = [rkey EXCEPT ![r] = client_ip]
             /\ admitted' = Put(admitted, client_ip,
                                Append(Log(client_ip), current_time))
             /\ UNCHANGED response

dispatch(r, request) ==
    /\ rpc[r] = "idle"
    /\ admission(r, get_client_ip(request))
    /\ UNCHANGED <<now, not_rl>>

\* `response = await call_next(request)` completes and dispatch returns it.
call_next_returns(r) ==
    /\ rpc[r] = "call_next"
    /\ rpc' = [rpc EXCEPT ![r] = "idle"]
    /\ rkey' = [rkey EXCEPT ![r] = Absent]
    /\ response' = [key |-> rkey[r], status |-> 200]
    /\ UNCHANGED <<requests, now, admitted, not_rl>>

\* time.time() moves on.
Tick ==
    /\ now < MaxTime
    /\ now' = now + 1
    /\ UNCHANGED <<requests, rpc, rkey, response, admitted, not_rl>>

(***************************************************************************)
(* config.validate_vast_config                                             *)
(***************************************************************************)
RequiredVars == {"VAST_ENDPOINT", "VAST_ACCESS_KEY_ID",
                 "VAST_SECRET_ACCESS_KEY", "VAST_BUCKET_NAME"}

Placeholders == {"your-vast-endpoint", "your-access-key",
                 "your-secret-key", "your-bucket-name"}

\* The values a required setting is given: unset, empty, an example value left
\* in place, a real value.
SettingValues == {None, "", "your-access-key", "vast-1"}

\* The settings the service is constructed from: all four real, or one of them
\* not, or none given (the defaults of config.Settings).
SettingsChoices ==
    {cfg \in [RequiredVars -> SettingValues] :
        \/ Cardinality({var \in RequiredVars : cfg[var] # "vast-1"}) <= 1
        \/ \A var \in RequiredVars : cfg[var] = None}

\* `not value`
IsMissing(value) == value = None \/ value = ""

\* A mutation of IsPlaceholder: example values pass as real ones.
IsPlaceholderNever(value) == FALSE

\* value in ["your-vast-endpoint", "your-access-key", "your-secret-key", "your-bucket-name"]
IsPlaceholder(value) == value \in Placeholders

MissingVarsMessage == "Missing required VAST environment variables"
PlaceholderVarsMessage == "VAST environment variables contain placeholder values"

\* The ValueError validate_vast_config raises, as its text; None when it returns.
validate_vast_config(cfg) ==
    LET missing_vars == {var \in RequiredVars : IsMissing(cfg[var])}
        placeholder_vars == {var \in RequiredVars :
                                ~IsMissing(cfg[var]) /\ IsPlaceholder(cfg[var])}
    IN  IF missing_vars # {} THEN MissingVarsMessage
        ELSE IF placeholder_vars # {} THEN PlaceholderVarsMessage
        ELSE None

(***************************************************************************)
(* VastDbService                                                           *)
(***************************************************************************)
Callers == 1 .. MaxCallers

Ops == {"connect", "create_schema", "list_schemas", "get_schema",
        "delete_schema", "create_table"}

\* An operation as called: create_schema carries options["failIfExists"]
\* (True when the caller gives none).
Calls == {call \in [op : Ops, fail_if_exists : BOOLEAN] :
             call.op # "create_schema" => call.fail_if_exists}

NoCall == [op |-> None, fail_if_exists |-> TRUE]

\* str(e) of the ImportError of `import vastdb`.
ImportErrorText == "No module named 'vastdb'"

\* str(e) of what vastdb.connect raises: an exception may carry no text.
ConnectErrorTexts == {"", "connection refused"}

\* What the store answers to the transaction of an operation.
StoreOutcomes(op) ==
    CASE op = "connect"       -> {"ok", "MissingBucket", "ConnectionError", "Exception"}
      [] op = "create_schema" -> {"ok", "SchemaExists", "Exception"}
      [] op = "list_schemas"  -> {"ok", "Exception"}
      [] op = "get_schema"    -> {"ok", "MissingSchema", "Exception"}
      [] op = "delete_schema" -> {"ok", "MissingSchema", "Exception"}
      [] op = "create_table"  -> {"ok", "TableExists", "Exception"}

\* str(e) of an exception of the store that the operation does not name.
StoreErrorText == "store error"

\* A result: success and message of the returned dict; `ensured` tells what
\* _ensure_connection returned ("skipped" when it was not called) and
\* `transaction` whether self.session.transaction() was opened.
Result(success, message, ensured, transaction) ==
    [success |-> success, message |-> message,
     ensured |-> ensured, transaction |-> transaction]

NoResult == Result(FALSE, None, "skipped", FALSE)

\* f"VastDB SDK not available: {self.vastdb_error}"
SdkUnavailableMessage(err) == "VastDB SDK not available: " \o err

\* `self._connection_error or <default>`
OrDefault(err, default) == IF err = None \/ err = "" THEN default ELSE err

\* The default of the message of a failed _ensure_connection.
UnavailableDefault(op) ==
    IF op \in {"connect", "api_get_connection_info", "schemas_health"} THEN "Failed to establish VAST Database connection"
    ELSE "VAST Database not available"

\* A mutation of HasConnectionError: the cached error is never looked at.
HasConnectionErrorNever(err) == FALSE

\* `if self._connection_error:`
HasConnectionError(err) == err # None /\ err # ""

\* A mutation of ConnectFailed: the failure is not recorded.
ConnectFailedForgotten(text) == [error |-> None, attempted |-> FALSE]

\* The except branch of _ensure_connection: what it stores.
ConnectFailed(text) == [error |-> text, attempted |-> TRUE]

\* A mutation of AlreadyAttempted: the flag is never looked at.
AlreadyAttemptedNever(flag) == FALSE

\* `if self._connection_attempted:`
AlreadyAttempted(flag) == flag

\* _ensure_connection, for the answer `outcome` of vastdb.connect ("ok", or the
\* text of the exception it raises): the new service state and the value
\* returned. vastdb.connect is invoked only on the last path.
ensure_connection(outcome) ==
    LET same == [session |-> session, error |-> connection_error,
                 attempted |-> connection_attempted, calls |-> connect_calls]
    IN  IF ~vastdb_available THEN same @@ [returns |-> FALSE]
        ELSE IF session # None THEN same @@ [returns |-> TRUE]
        ELSE IF HasConnectionError(connection_error) THEN same @@ [returns |-> FALSE]
        ELSE IF AlreadyAttempted(connection_attempted) THEN same @@ [returns |-> FALSE]
        ELSE LET n == IF connect_calls < MaxConnectCalls
                      THEN connect_calls + 1 ELSE connect_calls
             IN  IF outcome = "ok"
                 THEN [session |-> "session", error |-> connection_error,
                       attempted |-> TRUE, calls |-> n, returns |-> TRUE]
                 ELSE [session |-> None, error |-> ConnectFailed(outcome).error,
                       attempted |-> ConnectFailed(outcome).attempted,
                       calls |-> n, returns |-> FALSE]

\* Whether _ensure_connection, called now, reaches vastdb.connect.
ReachesConnect == ensure_connection("ok").calls # connect_calls

\* The dict an operation returns once _ensure_connection returned True, for the
\* store's answer to its transaction.
Transacted(call, store) ==
    LET ok(message) == Result(TRUE, message, "true", TRUE)
        failed(message) == Result(FALSE, message, "true", TRUE)
    IN  CASE store = "ok" -> ok("ok")
          [] store = "MissingBucket" -> failed("Bucket not found")
          [] store = "ConnectionError" -> failed("Failed to connect to VAST Database")
          [] store = "SchemaExists" ->
                IF call.fail_if_exists THEN failed("Schema already exists")
                ELSE ok("Schema already exists")
          [] store = "MissingSchema" -> failed("Schema not found")
          [] store = "TableExists" -> failed("Table already exists")
          [] store = "Exception" ->
                IF call.op = "connect" THEN failed("VAST Database error")
                ELSE failed(StoreErrorText)

\* One operation of the service, from its first line to its return: none of
\* them awaits anything, so the event loop runs it as one step.
\*   connect_outcome: the answer of vastdb.connect, should it be invoked;
\*   store: the answer of the store to the transaction, should one be opened.
operation(c) ==
    /\ dpc[c] = "pending"
    /\ \E connect_outcome \in {"ok"} \cup ConnectErrorTexts,
          store \in StoreOutcomes(dcall[c].op) :
       LET call == dcall[c]
           ensured == ensure_connection(connect_outcome)
       IN  IF ~vastdb_available
           THEN /\ dresult' = [dresult EXCEPT ![c] =
                      Result(FALSE, SdkUnavailableMessage(vastdb_error), "skipped", FALSE)]
                /\ UNCHANGED <<session, connection_error, connection_attempted,
                               connect_calls>>
           ELSE IF call.op = "connect" /\ HasConnectionError(connection_error)
                   /\ ~connection_attempted
           THEN /\ dresult' = [dresult EXCEPT ![c] =
                      Result(FALSE, "VAST Database configuration error: "
                                        \o connection_error, "skipped", FALSE)]
                /\ UNCHANGED <<session, connection_error, connection_attempted,
                               connect_calls>>
           ELSE /\ session' = ensured.session
                /\ connection_error' = ensured.error
                /\ connection_attempted' = ensured.attempted
                /\ connect_calls' = ensured.calls
                /\ IF ~ensured.returns
                   THEN dresult' = [dresult EXCEPT ![c] =
                           Result(FALSE,
                                  OrDefault(ensured.error, UnavailableDefault(call.op)),
                                  "false", FALSE)]
                   ELSE dresult' = [dresult EXCEPT ![c] = Transacted(call, store)]
    /\ dpc' = [dpc EXCEPT ![c] = "done"]
    /\ UNCHANGED <<settings, vastdb_available, vastdb_error, dcall, dfirst, not_db>>

\* A request handler starts to await an operation of the service.
begin(c, call) ==
    /\ dpc[c] = "idle"
    /\ dpc' = [dpc EXCEPT ![c] = "pending"]
    /\ dcall' = [dcall EXCEPT ![c] = call]
    /\ dfirst' = [dfirst EXCEPT ![c] = ReachesConnect]
    /\ dresult' = [dresult EXCEPT ![c] = NoResult]
    /\ UNCHANGED <<settings, vastdb_available, vastdb_error, session,
                   connection_attempted, connection_error, connect_calls, not_db>>

\* The handler has its result; the caller goes on to its next request.
finish(c) ==
    /\ dpc[c] = "done"
    /\ dpc' = [dpc EXCEPT ![c] = "idle"]
    /\ dcall' = [dcall EXCEPT ![c] = NoCall]
    /\ dfirst' = [dfirst EXCEPT ![c] = FALSE]
    /\ dresult' = [dresult EXCEPT ![c] = NoResult]
    /\ UNCHANGED <<settings, vastdb_available, vastdb_error, session,
                   connection_attempted, connection_error, connect_calls, not_db>>

\* VastDbService.__init__ with the SDK importable or not and the settings cfg.
ConstructVastDb(sdk, cfg) ==
    /\ settings = cfg
    /\ session = None
    /\ connection_attempted = FALSE
    /\ vastdb_available = sdk
    /\ vastdb_error = IF sdk THEN None ELSE ImportErrorText
    /\ connection_error =
          IF ~sdk THEN SdkUnavailableMessage(ImportErrorText)
          ELSE validate_vast_config(cfg)
    /\ connect_calls = 0
    /\ dpc = [c \in Callers |-> "idle"]
    /\ dcall = [c \in Callers |-> NoCall]
    /\ dfirst = [c \in Callers |-> FALSE]
    /\ dresult = [c \in Callers |-> NoResult]

\* The settings as config.Settings declares them: none of the four is given.
DefaultSettings == [var \in RequiredVars |-> None]

(***************************************************************************)
(* AuthHandler                                                             *)
(* Time is counted in whole minutes: timedelta(hours=1) is 60.             *)
(***************************************************************************)
Digits == <<"0", "1", "2", "3", "4", "5", "6", "7", "8", "9">>

IsDigit(ch) == \E i \in 1 .. 10 : Digits[i] = ch

DigitValue(ch) == (CHOOSE i \in 1 .. 10 : Digits[i] = ch) - 1

RECURSIVE DigitsValue(_)
DigitsValue(text) ==
    IF text = <<>> THEN 0
    ELSE 10 * DigitsValue(SubSeq(text, 1, Len(text) - 1)) + DigitValue(text[Len(text)])

\* int(text): the integer, or a ValueError when the text, without the blanks
\* around it, is not one or more digits after an optional sign.
int(text) ==
    LET body == Strip(text)
        signed == body # <<>> /\ Head(body) \in {"+", "-"}
        digits == IF signed THEN Tail(body) ELSE body
    IN  IF digits = <<>> \/ \E i \in 1 .. Len(digits) : ~IsDigit(digits[i])
        THEN [raises |-> "ValueError", value |-> 0]
        ELSE [raises |-> None,
              value |-> IF signed /\ Head(body) = "-"
                        THEN 0 - DigitsValue(digits) ELSE DigitsValue(digits)]

\* expires_in.endswith(ch)
EndsWith(text, ch) == text # <<>> /\ text[Len(text)] = ch

\* expires_in[:-1]
ButLast(text) == SubSeq(text, 1, Len(text) - 1)

\* timedelta(hours=..), timedelta(minutes=..), timedelta(days=..), in minutes.
Hours(n) == 60 * n
Minutes(n) == n
Days(n) == 1440 * n

\* A mutation of parse_expires_in: a number that cannot be read is replaced by
\* the default of eight hours.
parse_expires_in_lenient(expires_in) ==
    LET Of(number, Unit(_)) ==
            IF number.raises # None THEN [raises |-> None, delta |-> Hours(8)]
            ELSE [raises |-> None, delta |-> Unit(number.value)]
    IN  IF EndsWith(expires_in, "h") THEN Of(int(ButLast(expires_in)), Hours)
        ELSE IF EndsWith(expires_in, "m") THEN Of(int(ButLast(expires_in)), Minutes)
        ELSE IF EndsWith(expires_in, "d") THEN Of(int(ButLast(expires_in)), Days)
        ELSE Of(int(expires_in), Hours)

\* _parse_expires_in: the timedelta, or the ValueError of int().
parse_expires_in(expires_in) ==
    LET Of(number, Unit(_)) ==
            IF number.raises # None THEN [raises |-> number.raises, delta |-> 0]
            ELSE [raises |-> None, delta |-> Unit(number.value)]
    IN  IF EndsWith(expires_in, "h") THEN Of(int(ButLast(expires_in)), Hours)
        ELSE IF EndsWith(expires_in, "m") THEN Of(int(ButLast(expires_in)), Minutes)
        ELSE IF EndsWith(expires_in, "d") THEN Of(int(ButLast(expires_in)), Days)
        ELSE Of(int(expires_in), Hours)

\* The values of settings.JWT_EXPIRES_IN the handler is run with.
ExpiresInChoices == {<<"1", "h">>, <<"2", "m">>, <<"x">>}

\* settings.JWT_SECRET, and a secret that is not it.
Secret == "your-secure-secret-key-change-this"
OtherSecret == "another-secret"

\* self.algorithm
Algorithm == "HS256"

\* The claims of a login (auth_controller.login builds them).
ClaimKeys == {"username", "vastHost", "vastPort", "tenant",
              "accessToken", "refreshToken"}

ClaimsChoices ==
    {[username |-> "alice", vastHost |-> "vast-1", vastPort |-> 443,
      tenant |-> tenant, accessToken |-> "access-1", refreshToken |-> "refresh-1"] :
        tenant \in {None, "tenant-1"}}

\* A datetime, as distinct from the number PyJWT writes for it.
DateTime(minute) == <<"datetime", minute>>

\* timegm(dt.utctimetuple())
timegm(dt) == dt[2]

\* payload[key] = value
SetItem(dict, key, value) ==
    [k \in DOMAIN dict \cup {key} |-> IF k = key THEN value ELSE dict[k]]

\* A mutation of JsonValue: None is written as an empty text.
JsonValueNoneAsEmpty(key, value) ==
    IF key \in {"exp", "iat", "nbf"} THEN timegm(value)
    ELSE IF key = "tenant" /\ value = None THEN "" ELSE value

\* What jwt.encode writes for payload[key] and jwt.decode reads back: the
\* datetimes of exp, iat and nbf become numbers, texts, numbers and None are
\* kept by JSON.
JsonValue(key, value) ==
    IF key \in {"exp", "iat", "nbf"} THEN timegm(value) ELSE value

\* The HMAC of header and payload under a key, as a term.
Sign(header, body, key) == [alg |-> header.alg, key |-> key, header |-> header, body |-> body]

\* jwt.encode(payload, key, algorithm=...)
jwt_encode(dict, key, algorithm) ==
    LET header == [alg |-> algorithm, typ |-> "JWT"]
        body == [k \in DOMAIN dict |-> JsonValue(k, dict[k])]
    IN  [header |-> header, body |-> body, signature |-> Sign(header, body, key)]

\* A mutation of HasExpired: a token is still taken at its expires-at.
HasExpiredLate(exp, at) == exp < at

\* PyJWT: `if exp <= (now - leeway)`, leeway 0.
HasExpired(exp, at) == exp <= at

\* A mutation of jwt_decode: the expiry is looked at before the signature.
jwt_decode_expiry_first(token, key, algorithms, at) ==
    IF "exp" \in DOMAIN token.body /\ HasExpired(token.body.exp, at)
    THEN [raises |-> "ExpiredSignatureError", body |-> <<>>]
    ELSE IF token.header.alg \notin algorithms
    THEN [raises |-> "InvalidAlgorithmError", body |-> <<>>]
    ELSE IF token.signature # Sign(token.header, token.body, key)
    THEN [raises |-> "InvalidSignatureError", body |-> <<>>]
    ELSE [raises |-> None, body |-> token.body]

\* jwt.decode(token, key, algorithms=[...]) at the time `at`: the algorithm of
\* the header, then the signature, then the claims (exp).
jwt_decode(token, key, algorithms, at) ==
    IF token.header.alg \notin algorithms
    THEN [raises |-> "InvalidAlgorithmError", body |-> <<>>]
    ELSE IF token.signature # Sign(token.header, token.body, key)
    THEN [raises |-> "InvalidSignatureError", body |-> <<>>]
    ELSE IF "exp" \in DOMAIN token.body /\ HasExpired(token.body.exp, at)
    THEN [raises |-> "ExpiredSignatureError", body |-> <<>>]
    ELSE [raises |-> None, body |-> token.body]

\* The exceptions of PyJWT that are InvalidTokenError or a subclass of it.
InvalidTokenErrors == {"InvalidTokenError", "DecodeError", "InvalidSignatureError",
                       "ExpiredSignatureError", "InvalidAlgorithmError"}

\* decode_token at the time `at`: the payload, or the detail of the
\* HTTPException(401) raised, with which nothing is returned.
decode_token(token, at) ==
    LET decoded == jwt_decode(token, Secret, {Algorithm}, at)
    IN  IF decoded.raises = None THEN [kind |-> "ok", returned |-> decoded.body]
        ELSE IF decoded.raises = "ExpiredSignatureError"
        THEN [kind |-> "Token expired", returned |-> <<>>]
        ELSE IF decoded.raises \in InvalidTokenErrors
        THEN [kind |-> "Invalid token", returned |-> <<>>]
        ELSE [kind |-> decoded.raises, returned |-> <<>>]

\* The tokens a client presents, made of a minted one: the token itself, the
\* token signed with another secret, its payload with a later exp under the old
\* signature, and its header naming another algorithm.
Presentations == {"minted", "other secret", "later exp", "other algorithm"}

Presented(token, how) ==
    CASE how = "minted" -> token
      [] how = "other secret" ->
            [token EXCEPT !.signature = Sign(token.header, token.body, OtherSecret)]
      [] how = "later exp" ->
            [token EXCEPT !.body = SetItem(token.body, "exp", token.body.exp + MaxUtc)]
      [] how = "other algorithm" ->
            [token EXCEPT !.header = [alg |-> "none", typ |-> "JWT"]]

\* encode_token, lines 26-27: the lifetime is parsed and exp is stamped from a
\* first reading of the clock.
encode_token_exp(claims) ==
    /\ mpc = "idle"
    /\ utc <= MaxMintTime
    /\ LET expires_delta == parse_expires_in(jwt_expires_in)
       IN  IF expires_delta.raises # None
           THEN /\ mint_error' = expires_delta.raises
                /\ payload' = claims
                /\ UNCHANGED mpc
           ELSE /\ mint_error' = None
                /\ payload' = SetItem(claims, "exp", DateTime(utc + expires_delta.delta))
                /\ mpc' = "exp"
    /\ UNCHANGED <<jwt_expires_in, utc, minted, verdict, not_auth>>

\* encode_token, lines 28-30: iat is stamped from a second reading of the
\* clock and the token is signed.
encode_token_iat ==
    /\ mpc = "exp"
    /\ LET stamped == SetItem(payload, "iat", DateTime(utc))
       IN  /\ payload' = stamped
           /\ minted' = <<[token |-> jwt_encode(stamped, Secret, Algorithm),
                           claims |-> [k \in ClaimKeys |-> payload[k]]]>>
    /\ mpc' = "idle"
    /\ UNCHANGED <<jwt_expires_in, utc, mint_error, verdict, not_auth>>

\* decode_token of a presented token.
verify(how) ==
    /\ minted # <<>>
    /\ LET outcome == decode_token(Presented(minted[1].token, how), utc)
       IN  verdict' = [how |-> how, of |-> minted, at |-> utc,
                       kind |-> outcome.kind, returned |-> outcome.returned]
    /\ UNCHANGED <<jwt_expires_in, utc, mpc, payload, minted, mint_error, not_auth>>

\* datetime.utcnow() moves on, between two requests or between the two
\* readings of encode_token.
TickUtc ==
    /\ utc < MaxUtc
    /\ mpc = "exp" => utc < MaxMintTime
    /\ utc' = utc + 1
    /\ UNCHANGED <<jwt_expires_in, mpc, payload, minted, mint_error, verdict, not_auth>>

\* AuthHandler.__init__ with settings.JWT_EXPIRES_IN = expires_in.
ConstructAuthHandler(expires_in) ==
    /\ jwt_expires_in = expires_in
    /\ utc = 0
    /\ mpc = "idle"
    /\ payload = <<>>
    /\ minted = <<>>
    /\ mint_error = None
    /\ verdict = [how |-> None, of |-> <<>>, at |-> 0, kind |-> None, returned |-> <<>>]

\* settings.JWT_EXPIRES_IN as config.Settings declares it.
DefaultExpiresIn == <<"8", "h">>

(***************************************************************************)
(* VastService                                                             *)
(* Time is counted in steps of HoursPerTick hours.                         *)
(***************************************************************************)
SvcCallers == 1 .. MaxSvcCallers

LoginCallers == 1 .. MaxLoginCallers

\* The clusters, tenants and users of the requests.
Hosts == {"vast-1"}
Ports == {443}
Tenants == {"default", "t1"}
Users == {"alice"}

\* The age, in hours, above which a cached session is too old.
SessionTtlHours == 8

\* str(n) of a number that is not negative.
RECURSIVE str(_)
str(n) == IF n < 10 THEN Digits[n + 1] ELSE str(n \div 10) \o Digits[(n % 10) + 1]

\* f"{host}:{port}:{tenant}"
client_key(host, port, tenant) == host \o ":" \o str(port) \o ":" \o tenant

\* A key a dict does not have.
Missing == "<missing>"

\* No cached entry: what self.clients.get returns for a key it does not have.
NoEntry == <<>>

\* self.clients.get(client_key)
Lookup(cache, key) == IF key \in DOMAIN cache THEN cache[key] ELSE NoEntry

\* del self.clients[client_key]
Remove(cache, key) == [k \in DOMAIN cache \ {key} |-> cache[k]]

\* The truth value of a text or None.
Truthy(value) == value # None /\ value # ""

\* json.get(key): None when the key is missing.
Get(json, key) == IF json[key] = Missing THEN None ELSE json[key]

\* The JSON objects a response body parses to, by their keys access, refresh
\* and message; null is None.
Dicts ==
    {[access |-> a, refresh |-> r, message |-> Missing] :
        a \in {Missing, None, "access-1"}, r \in {Missing, None, "refresh-1"}}
    \cup {[access |-> Missing, refresh |-> Missing, message |-> "bad request"]}

NoDict == [access |-> Missing, refresh |-> Missing, message |-> Missing]

\* What an awaited HTTP call ends with: an exception of httpx or a response.
Raised(exception) ==
    [raises |-> exception, status |-> 0, parses |-> FALSE, json |-> NoDict, text |-> ""]

Response(status, parses, json, text) ==
    [raises |-> None, status |-> status, parses |-> parses, json |-> json, text |-> text]

\* str(e) of an exception that is neither a timeout nor a connect error.
ExceptionText == "transport error"

Exceptions == {Raised("TimeoutException"), Raised("ConnectError"), Raised("Exception")}

\* response.text of a body that is a JSON object.
JsonText(d) ==
    LET Field(key, value) == IF value = Missing THEN "" ELSE key \o "=" \o value \o ";"
    IN  "{" \o Field("access", d.access) \o Field("refresh", d.refresh)
            \o Field("message", d.message) \o "}"

\* The bodies of a response: one that is not JSON, and the JSON objects.
Bodies ==
    {[parses |-> FALSE, json |-> NoDict, text |-> "not json"]}
    \cup {[parses |-> TRUE, json |-> d, text |-> JsonText(d)] : d \in Dicts}

\* What the probe GET / ends with.
ProbeAnswers ==
    Exceptions \cup {Response(st, FALSE, NoDict, "") : st \in {200, 503}}

\* What the login POST ends with: a login answer carries any of the bodies,
\* another answer one that is not JSON or an error object.
PostStatuses == {200, 201, 400, 401, 403, 404, 500, 503}

PostAnswers ==
    Exceptions
    \cup {Response(st, b.parses, b.json, b.text) :
             st \in {200, 201}, b \in {b \in Bodies : b.json.message = Missing}}
    \cup {Response(st, b.parses, b.json, b.text) :
             st \in PostStatuses,
             b \in {b \in Bodies : b.json.access = Missing /\ b.json.refresh = Missing}}

\* What the GET of verify_token, get_tenants and get_vip_pools ends with.
GetAnswers ==
    Exceptions \cup {Response(st, TRUE, NoDict, JsonText(NoDict)) : st \in {200, 401}}

\* An HTTP request as issued.
Request(method, path, bearer) == [method |-> method, path |-> path, bearer |-> bearer]

\* A call of an operation of the service.
VCall(op, host, port, tenant, username, access_token) ==
    [op |-> op, host |-> host, port |-> port, tenant |-> tenant,
     username |-> username, access_token |-> access_token]

VNoCall == VCall(None, None, 0, None, None, None)

\* The dict an operation returns (True or False for verify_token).
VResult(success, message, accessToken, refreshToken) ==
    [success |-> success, message |-> message,
     accessToken |-> accessToken, refreshToken |-> refreshToken]

Failure(message) == VResult(FALSE, message, None, None)

\* An exception that leaves an operation: what its caller gets in place of a
\* dict.
Uncaught(text) == [raises |-> text]

\* A mutation of except_exception: the exception is not caught.
except_nothing(message) == Uncaught(message)

\* `except Exception as e:` of authenticate, get_tenants and get_vip_pools:
\* the failure dict with the message made of str(e).
except_exception(message) == Failure(message)

\* What `vlast` holds when an operation returns: the call, the requests it
\* issued, what it returned, for get_authenticated_client_info the entry
\* returned, and the key a lookup deleted (None when it deleted nothing).
Returned(call, sent, result, info, evicted) ==
    [call |-> call, sent |-> sent, result |-> result,
     info |-> info, evicted |-> evicted]

\* What `vlast` holds when the step returned nothing.
NoReturn == Returned(VNoCall, <<>>, VResult(FALSE, None, None, None), NoEntry, None)

\* A mutation of IsTooOld: no entry is ever too old.
IsTooOldNever(age) == FALSE

\* A mutation of IsTooOld: an entry of exactly 8 hours is too old.
IsTooOldInclusive(age) == age >= SessionTtlHours

\* `if age_hours > 8`
IsTooOld(age) == age > SessionTtlHours

\* (time.time() - created_at) / 3600
age_hours(at, created_at) == (at - created_at) * HoursPerTick

\* get_authenticated_client_info at the time `at`: the cache it leaves, what it
\* returns, and the key it deleted.
get_authenticated_client_info(cache, host, port, tenant, at) ==
    LET key == client_key(host, port, tenant)
        cached == Lookup(cache, key)
    IN  IF cached = NoEntry
        THEN [cache |-> cache, returns |-> NoEntry, evicted |-> None]
        ELSE IF IsTooOld(age_hours(at, cached.created_at))
        THEN [cache |-> Remove(cache, key), returns |-> NoEntry, evicted |-> key]
        ELSE [cache |-> cache, returns |-> cached, evicted |-> None]

\* A mutation of expired_keys: every key is taken for expired.
expired_keys_all(cache, at) == DOMAIN cache

\* cleanup_sessions: the keys it collects.
expired_keys(cache, at) ==
    {key \in DOMAIN cache : IsTooOld(age_hours(at, cache[key].created_at))}

\* test_connectivity from line 63 on: the dict it returns for what the GET /
\* ended with.
connectivity_test(answer, host, port) ==
    IF answer.raises = None THEN VResult(TRUE, None, None, None)
    ELSE IF answer.raises = "TimeoutException"
    THEN Failure("Connection timeout after 5.0s")
    ELSE IF answer.raises = "ConnectError"
    THEN Failure("Cannot connect to " \o host \o ":" \o str(port))
    ELSE Failure(ExceptionText)

\* A mutation of ProbeFailed: the result of the probe is not looked at.
ProbeFailedNever(test) == FALSE

\* `if not connectivity_test["success"]`
ProbeFailed(test) == ~test.success

\* "/token/" if tenant == "default" else f"/token/{tenant}"
token_endpoint(tenant) == IF tenant = "default" THEN "/token/" ELSE "/token/" \o tenant

\* The entry authenticate stores.
Entry(data, call, at) ==
    [access_token |-> data.access, refresh_token |-> data.refresh,
     username |-> call.username, tenant |-> call.tenant, created_at |-> at,
     host |-> call.host, port |-> call.port]

\* authenticate from line 126 on, for what the POST ended with at the time
\* `at`: the dict returned and the cache left.
login_response(cache, call, answer, at) ==
    LET failed(message) == [result |-> Failure(message), cache |-> cache]
    IN  IF answer.raises = "TimeoutException"
        THEN failed("Authentication timeout after 15.0s - VAST cluster may be slow or unreachable")
        ELSE IF answer.raises = "ConnectError"
        THEN failed("Cannot connect to VAST server " \o call.host \o ":" \o str(call.port)
                        \o " - check network connectivity")
        ELSE IF answer.raises # None
        THEN [result |-> except_exception("Authentication failed: " \o ExceptionText),
              cache |-> cache]
        ELSE IF answer.status # 200
        THEN IF answer.status = 401 THEN failed("Invalid credentials")
             ELSE IF answer.status = 404
             THEN failed("VAST API endpoint not found - check host and port")
             ELSE IF answer.status = 403
             THEN failed("Access forbidden - check user permissions")
             ELSE IF answer.status >= 500
             THEN failed("VAST server error (" \o str(answer.status) \o ")")
             ELSE LET message ==
                          IF answer.parses /\ answer.json.message # Missing
                          THEN answer.json.message ELSE answer.text
                  IN  failed("Authentication failed: " \o message)
        ELSE IF ~answer.parses
        THEN failed("Invalid response format from VAST server")
        ELSE IF Truthy(Get(answer.json, "access"))
        THEN IF answer.json.refresh = Missing
             THEN [result |-> except_exception("Authentication failed: 'refresh'"),
                   cache |-> cache]
             ELSE [result |-> VResult(TRUE, None, answer.json.access, answer.json.refresh),
                   cache |-> Put(cache, client_key(call.host, call.port, call.tenant),
                                 Entry(answer.json, call, at))]
        ELSE failed("Authentication response missing access token")

\* `if not client_info`
NoClientInfo(client_info) == client_info = NoEntry

\* get_tenants and get_vip_pools from the response on: the dict returned.
listing_response(answer) ==
    IF answer.raises = "TimeoutException" THEN Failure("Request timeout")
    ELSE IF answer.raises # None THEN except_exception(ExceptionText)
    ELSE IF answer.status = 200
    THEN IF answer.parses THEN VResult(TRUE, None, None, None)
         ELSE except_exception("Expecting value: line 1 column 1 (char 0)")
    ELSE Failure("HTTP " \o str(answer.status))

\* The operation of caller c returns to its caller.
Returns(c, call, sent, result, info, evicted) ==
    /\ vpc' = [vpc EXCEPT ![c] = "idle"]
    /\ vcall' = [vcall EXCEPT ![c] = VNoCall]
    /\ vsent' = [vsent EXCEPT ![c] = <<>>]
    /\ vlast' = Returned(call, sent, result, info, evicted)

\* The operation of caller c is suspended at an await.
Awaits(c, call, where, sent) ==
    /\ vpc' = [vpc EXCEPT ![c] = where]
    /\ vcall' = [vcall EXCEPT ![c] = call]
    /\ vsent' = [vsent EXCEPT ![c] = sent]
    /\ vlast' = NoReturn

\* The probe as issued.
ProbeRequest == Request("GET", "/", None)

\* authenticate up to the await of the probe inside test_connectivity.
authenticate(c, host, port, username, tenant) ==
    /\ vpc[c] = "idle"
    /\ clock <= MaxLoginTime
    /\ Awaits(c, VCall("authenticate", host, port, tenant, username, None),
              "probe", <<ProbeRequest>>)
    /\ UNCHANGED <<clients, clock, not_svc>>

\* test_connectivity, called on its own, up to the await of its GET.
test_connectivity(c, host, port) ==
    /\ vpc[c] = "idle"
    /\ Awaits(c, VCall("test_connectivity", host, port, None, None, None),
              "probe", <<ProbeRequest>>)
    /\ UNCHANGED <<clients, clock, not_svc>>

\* The GET / ends: test_connectivity returns, and authenticate either returns
\* the connectivity failure or goes on to the await of the login POST.
after_probe(c, answer) ==
    /\ vpc[c] = "probe"
    /\ LET call == vcall[c]
           done == vsent[c]
           test == connectivity_test(answer, call.host, call.port)
       IN  IF call.op = "test_connectivity"
           THEN Returns(c, call, done, test, NoEntry, None)
           ELSE IF ProbeFailed(test)
           THEN Returns(c, call, done,
                        Failure("Cannot reach VAST cluster: " \o test.message),
                        NoEntry, None)
           ELSE Awaits(c, call, "post",
                       Append(done, Request("POST", token_endpoint(call.tenant), None)))
    /\ UNCHANGED <<clients, clock>>

\* The GET / of an operation called on its own ends.
probe_returns(c, answer) ==
    /\ after_probe(c, answer)
    /\ UNCHANGED not_svc

\* The login POST ends: authenticate classifies it, stores the session and
\* returns.
after_post(c, answer) ==
    /\ vpc[c] = "post"
    /\ LET out == login_response(clients, vcall[c], answer, clock)
       IN  /\ clients' = out.cache
           /\ Returns(c, vcall[c], vsent[c], out.result, NoEntry, None)
    /\ UNCHANGED clock

\* The login POST of an authenticate called on its own ends.
post_returns(c, answer) ==
    /\ after_post(c, answer)
    /\ UNCHANGED not_svc

\* verify_token up to the await of its GET.
verify_token(c, access_token, host, port) ==
    /\ vpc[c] = "idle"
    /\ Awaits(c, VCall("verify_token", host, port, None, None, access_token), "get",
              <<Request("GET", "/tenants/configured_idp/", access_token)>>)
    /\ UNCHANGED <<clients, clock, not_svc>>

\* get_tenants and get_vip_pools up to the await of the GET, or to the return
\* of "No authenticated session found".
listing(c, op, path, host, port, tenant) ==
    /\ vpc[c] = "idle"
    /\ LET call == VCall(op, host, port, tenant, None, None)
           found == get_authenticated_client_info(clients, host, port, tenant, clock)
       IN  /\ clients' = found.cache
           /\ IF NoClientInfo(found.returns)
              THEN Returns(c, call, <<>>, Failure("No authenticated session found"),
                           NoEntry, found.evicted)
              ELSE Awaits(c, call, "get",
                          <<Request("GET", path, found.returns.access_token)>>)
    /\ UNCHANGED <<clock, not_svc>>

get_tenants(c, host, port, tenant) ==
    listing(c, "get_tenants", "/tenants/", host, port, tenant)

get_vip_pools(c, host, port, tenant) ==
    listing(c, "get_vip_pools", "/vippools/", host, port, tenant)

\* The GET of verify_token, get_tenants or get_vip_pools ends.
get_returns(c, answer) ==
    /\ vpc[c] = "get"
    /\ LET result ==
               IF vcall[c].op = "verify_token"
               THEN VResult(answer.raises = None /\ answer.status = 200, None, None, None)
               ELSE listing_response(answer)
       IN  Returns(c, vcall[c], vsent[c], result, NoEntry, None)
    /\ UNCHANGED <<clients, clock, not_svc>>

\* get_authenticated_client_info, called on its own.
client_info(c, host, port, tenant) ==
    /\ vpc[c] = "idle"
    /\ LET found == get_authenticated_client_info(clients, host, port, tenant, clock)
       IN  /\ clients' = found.cache
           /\ Returns(c, VCall("get_authenticated_client_info", host, port, tenant,
                               None, None),
                      <<>>, VResult(found.returns # NoEntry, None, None, None),
                      found.returns, found.evicted)
    /\ UNCHANGED <<clock, not_svc>>

\* cleanup_sessions
cleanup_sessions ==
    /\ clients' = [key \in DOMAIN clients \ expired_keys(clients, clock) |-> clients[key]]
    /\ vlast' = NoReturn
    /\ UNCHANGED <<clock, vpc, vcall, vsent, not_svc>>

\* time.time() moves on; no request spans more than the first hours.
TickClock ==
    /\ clock < MaxClock
    /\ (\E c \in SvcCallers : vpc[c] # "idle") => clock < MaxLoginTime
    /\ clock' = clock + 1
    /\ vlast' = NoReturn
    /\ UNCHANGED <<clients, vpc, vcall, vsent, not_svc>>

\* VastService.__init__, with room for concurrent logins.
ConstructLoginService ==
    /\ clients = <<>>
    /\ clock = 0
    /\ vpc = [c \in LoginCallers |-> "idle"]
    /\ vcall = [c \in LoginCallers |-> VNoCall]
    /\ vsent = [c \in LoginCallers |-> <<>>]
    /\ vlast = NoReturn

\* VastService.__init__
ConstructVastService ==
    /\ clients = <<>>
    /\ clock = 0
    /\ vpc = [c \in SvcCallers |-> "idle"]
    /\ vcall = [c \in SvcCallers |-> VNoCall]
    /\ vsent = [c \in SvcCallers |-> <<>>]
    /\ vlast = NoReturn

(***************************************************************************)
(* Schema operations: VastDbService.create_schema and get_schema, and the   *)
(* handlers of schema_controller that call them. None of them is suspended *)
(* between its first line and its return.                                  *)
(***************************************************************************)
\* The schema names of the requests; both match ^[a-zA-Z][a-zA-Z0-9_]*$.
SchemaNames == {"a", "b"}

\* Settings with the four required variables given.
ConfiguredSettings == [var \in RequiredVars |-> "vast-1"]

\* self.bucket_name
bucket_name == settings["VAST_BUCKET_NAME"]

\* datetime.utcnow().isoformat()
isoformat(at) == "T" \o str(at)

\* _generate_schema_id: the first 16 characters of the base64 of
\* f"{bucket}-{name}", which encode its first 12 bytes; the sources here are
\* no longer than that.
generate_schema_id(schema_name) == "base64(" \o bucket_name \o "-" \o schema_name \o ")"

\* The "schema" dict of a create_schema result.
SchemaDescriptor(schema_name, at) ==
    [name |-> schema_name, bucket |-> bucket_name,
     path |-> "/" \o bucket_name \o "/" \o schema_name,
     protocols |-> <<"DATABASE", "S3">>,
     created |-> isoformat(at), id |-> generate_schema_id(schema_name)]

\* The table names of the requests and the schemas the tables are asked for
\* in; they match ^[a-zA-Z][a-zA-Z0-9_]*$.
TableNames == {"t"}
TableSchemaNames == {"a"}

\* The elements of a finite set in an order: the order in which the store
\* lists its tables.
RECURSIVE Listed(_)
Listed(S) ==
    IF S = {} THEN <<>>
    ELSE LET x == CHOOSE y \in S : TRUE IN <<x>> \o Listed(S \ {x})

\* get_schema, lines 298-308: one dict per table of the schema, its columns
\* read back from the store.
table_list(schema_name, at) ==
    LET names == Listed({t \in TableNames : <<schema_name, t>> \in DOMAIN tables})
    IN  [i \in DOMAIN names |->
            LET fields == tables[<<schema_name, names[i]>>]
            IN  [name |-> names[i], schema |-> schema_name,
                 columns |-> [j \in DOMAIN fields |->
                                 [name |-> fields[j].name, type |-> fields[j].type]],
                 rows |-> 0, created |-> isoformat(at)]]

\* The "schema" dict of a get_schema result.
SchemaDetails(schema_name, at) ==
    [name |-> schema_name, bucket |-> bucket_name,
     path |-> "/" \o bucket_name \o "/" \o schema_name,
     protocols |-> <<"DATABASE", "S3">>,
     created |-> isoformat(at), id |-> generate_schema_id(schema_name),
     tables |-> table_list(schema_name, at)]

NoSchema == <<>>

\* f"Schema '{schema_name}' not found"
SchemaNotFoundMessage(schema_name) == "Schema '" \o schema_name \o "' not found"

\* f"Schema '{schema_name}' already exists"
SchemaExistsMessage(schema_name) == "Schema '" \o schema_name \o "' already exists"

\* What the store answers inside the transaction of create_schema: it raises
\* SchemaExists for a name it has when fail_if_exists is set, creates a name it
\* does not have, and may fail in another way at any time. What it does for a
\* name it has when fail_if_exists is not set is the SDK's choice: it returns
\* the schema or raises SchemaExists.
create_schema_answers(schema_name, fail_if_exists) ==
    {"Exception"}
    \cup (IF schema_name \notin bucket THEN {"ok"}
          ELSE IF fail_if_exists THEN {"SchemaExists"}
          ELSE {"ok", "SchemaExists"})

\* What the store answers inside the transaction of get_schema.
get_schema_answers(schema_name) ==
    {"Exception"}
    \cup (IF schema_name \in bucket THEN {"ok"} ELSE {"MissingSchema"})

\* A result dict of the service with what led to it: `cause` is the answer of
\* the store, or "none" when no transaction was opened.
SchemaResult(success, message, schema, cause) ==
    [success |-> success, message |-> message, schema |-> schema, cause |-> cause]

\* create_schema from the transaction on.
create_schema_transaction(schema_name, fail_if_exists, answer, at) ==
    IF answer = "ok"
    THEN SchemaResult(TRUE, "Schema '" \o schema_name \o "' created successfully",
                      SchemaDescriptor(schema_name, at), answer)
    ELSE IF answer = "SchemaExists"
    THEN IF fail_if_exists
         THEN SchemaResult(FALSE, SchemaExistsMessage(schema_name), NoSchema, answer)
         ELSE SchemaResult(TRUE, SchemaExistsMessage(schema_name),
                           SchemaDescriptor(schema_name, at), answer)
    ELSE SchemaResult(FALSE, StoreErrorText, NoSchema, answer)

\* get_schema from the transaction on.
get_schema_transaction(schema_name, answer, at) ==
    IF answer = "ok"
    THEN SchemaResult(TRUE, None, SchemaDetails(schema_name, at), answer)
    ELSE IF answer = "MissingSchema"
    THEN SchemaResult(FALSE, SchemaNotFoundMessage(schema_name), NoSchema, answer)
    ELSE SchemaResult(FALSE, StoreErrorText, NoSchema, answer)

\* `"already exists" in result["message"].lower()`: of the messages the
\* service returns, the ones of SchemaExists.
MentionsAlreadyExists(message) ==
    \E schema_name \in SchemaNames : message = SchemaExistsMessage(schema_name)

\* The status of the response of the controller's create_schema for the
\* result of the service.
create_schema_status(result) ==
    IF result.success THEN 201
    ELSE IF MentionsAlreadyExists(result.message) THEN 409
    ELSE 400

\* The status of the response of the controller's get_schema for the result of
\* the service.
get_schema_status(result) == IF result.success THEN 200 ELSE 404

\* `"not found" in result["message"].lower()`: of the messages the service
\* returns, the ones of MissingSchema.
MentionsNotFound(message) ==
    \E schema_name \in SchemaNames : message = SchemaNotFoundMessage(schema_name)

\* The status of the response of the controller's delete_schema.
delete_schema_status(result) ==
    IF result.success THEN 200
    ELSE IF MentionsNotFound(result.message) THEN 404
    ELSE 400

\* The status of the response of the controller's create_table.
create_table_status(result) == IF result.success THEN 201 ELSE 400

\* The HTTP status the caller of an operation sees: the handler's mapping of
\* the service's result, and 0 for a direct call of the service, which has no
\* status. list_schemas returns a dict for every result of the service and
\* list_tables maps the result of get_schema as get_schema does.
reply_status(op, result) ==
    CASE op = "api_create_schema" -> create_schema_status(result)
      [] op = "api_get_schema" -> get_schema_status(result)
      [] op = "api_list_tables" -> get_schema_status(result)
      [] op = "api_delete_schema" -> delete_schema_status(result)
      [] op = "api_create_table" -> create_table_status(result)
      [] op = "api_list_schemas" -> 200
      [] op = "api_get_connection_info" -> 200
      [] op = "schemas_health" -> 200
      [] OTHER -> 0

\* What `sreply` holds: the operation, its arguments, the result of the
\* service, and the status of the HTTP response (0 when the service was called
\* directly).
SchemaReply(op, schema_name, fail_if_exists, result, status) ==
    [op |-> op, name |-> schema_name, fail_if_exists |-> fail_if_exists,
     result |-> result, status |-> status]

NoSchemaReply ==
    SchemaReply(None, None, TRUE, SchemaResult(FALSE, None, NoSchema, "none"), 0)

\* The lines every schema operation of the service starts with: the SDK check
\* and _ensure_connection. `transaction` is what the operation returns once it
\* has a session and `store_after` the bucket and the tables the transaction
\* leaves.
schema_operation(op, schema_name, fail_if_exists, connect_outcome, transaction, store_after) ==
    LET ensured == ensure_connection(connect_outcome)
        answer(result) ==
            sreply' = SchemaReply(op, schema_name, fail_if_exists, result, reply_status(op, result))
    IN  IF ~vastdb_available
        THEN /\ answer(SchemaResult(FALSE, SdkUnavailableMessage(vastdb_error),
                                    NoSchema, "none"))
             /\ UNCHANGED <<session, connection_error, connection_attempted,
                            connect_calls, bucket, tables>>
        ELSE /\ session' = ensured.session
             /\ connection_error' = ensured.error
             /\ connection_attempted' = ensured.attempted
             /\ connect_calls' = ensured.calls
             /\ IF ~ensured.returns
                THEN /\ answer(SchemaResult(FALSE,
                                            OrDefault(ensured.error,
                                                      UnavailableDefault(op)),
                                            NoSchema, "none"))
                     /\ UNCHANGED <<bucket, tables>>
                ELSE /\ answer(transaction)
                     /\ bucket' = store_after.bucket
                     /\ tables' = store_after.tables

ConnectOutcomes == {"ok"} \cup ConnectErrorTexts

\* The store as a transaction leaves it.
Store(bucket_after, tables_after) == [bucket |-> bucket_after, tables |-> tables_after]

\* The store after bucket.create_schema was answered.
created_schema(schema_name, answer) ==
    Store(IF answer = "ok" THEN bucket \cup {schema_name} ELSE bucket, tables)

\* VastDbService.create_schema, called with options["failIfExists"].
create_schema(schema_name, fail_if_exists) ==
    /\ \E connect_outcome \in ConnectOutcomes,
          answer \in create_schema_answers(schema_name, fail_if_exists) :
          schema_operation("create_schema", schema_name, fail_if_exists, connect_outcome,
                           create_schema_transaction(schema_name, fail_if_exists,
                                                     answer, dbclock),
                           created_schema(schema_name, answer))
    /\ UNCHANGED <<settings, vastdb_available, vastdb_error, dpc, dcall, dfirst,
                   dresult, dbclock, not_schema>>

\* The response of a handler that found the store not configured.
NotConfigured(op, schema_name) ==
    /\ sreply' = SchemaReply(op, schema_name, TRUE,
                             SchemaResult(FALSE, "VAST Database not configured",
                                          NoSchema, "none"), 503)
    /\ UNCHANGED <<session, connection_error, connection_attempted, connect_calls,
                   bucket, tables>>

\* schema_controller.create_schema: POST /, which calls the service with
\* failIfExists True.
handle_create_schema(schema_name) ==
    IF validate_vast_config(settings) # None
    THEN NotConfigured("api_create_schema", schema_name)
    ELSE \E connect_outcome \in ConnectOutcomes,
            answer \in create_schema_answers(schema_name, TRUE) :
            schema_operation("api_create_schema", schema_name, TRUE, connect_outcome,
                             create_schema_transaction(schema_name, TRUE,
                                                       answer, dbclock),
                             created_schema(schema_name, answer))

\* create_schema of the controller called with the user resolved: nothing but the
\* service and the store is touched.
api_create_schema(schema_name) ==
    /\ handle_create_schema(schema_name)
    /\ UNCHANGED <<settings, vastdb_available, vastdb_error, dpc, dcall, dfirst,
                   dresult, dbclock, not_schema>>

\* schema_controller.get_schema: GET /{name}.
handle_get_schema(schema_name) ==
    IF validate_vast_config(settings) # None
    THEN NotConfigured("api_get_schema", schema_name)
    ELSE \E connect_outcome \in ConnectOutcomes,
            answer \in get_schema_answers(schema_name) :
            schema_operation("api_get_schema", schema_name, TRUE, connect_outcome,
                             get_schema_transaction(schema_name, answer, dbclock),
                             Store(bucket, tables))

\* get_schema of the controller called with the user resolved: nothing but the
\* service and the store is touched.
api_get_schema(schema_name) ==
    /\ handle_get_schema(schema_name)
    /\ UNCHANGED <<settings, vastdb_available, vastdb_error, dpc, dcall, dfirst,
                   dresult, dbclock, not_schema>>

\* The type names of the columns of the requests: the keys of type_map, a
\* name it does not have, and a key in another case.
TypeNames ==
    {"string", "utf8", "int", "int64", "int32", "integer", "float", "float64",
     "double", "boolean", "bool", "date", "date32", "timestamp", "mystery", "String"}

\* A column dict of a request; `nullable` is <<>> when the key is absent.
Column(name, type, nullable) == [name |-> name, type |-> type, nullable |-> nullable]

\* The columns create_table takes when it is given none.
DefaultColumns ==
    <<Column("id", "int64", <<FALSE>>), Column("created_at", "timestamp", <<FALSE>>),
      Column("updated_at", "timestamp", <<TRUE>>)>>

\* The column lists of the requests.
ColumnsChoices ==
    {<<>>}
    \cup {<<Column("c", type_name, <<>>)>> : type_name \in TypeNames}
    \cup {<<Column("c", "int32", <<FALSE>>), Column("d", "mystery", <<TRUE>>)>>}

\* _map_to_arrow_type: type_map, PyArrow types written as str() prints them.
type_map ==
    ("string" :> "string") @@ ("utf8" :> "string") @@ ("int" :> "int64")
    @@ ("int64" :> "int64") @@ ("int32" :> "int32") @@ ("integer" :> "int64")
    @@ ("float" :> "double") @@ ("float64" :> "double") @@ ("double" :> "double")
    @@ ("boolean" :> "bool") @@ ("bool" :> "bool") @@ ("date" :> "date32[day]")
    @@ ("date32" :> "date32[day]") @@ ("timestamp" :> "timestamp[us]")

\* A mutation of map_type: a name type_map does not have is mapped to nothing.
map_type_strict(type_name) ==
    IF type_name \in DOMAIN type_map THEN type_map[type_name] ELSE None

\* type_map.get(type_name, pa.string())
map_type(type_name) ==
    IF type_name \in DOMAIN type_map THEN type_map[type_name] ELSE "string"

\* _map_to_arrow_type
map_to_arrow_type(type_name) ==
    IF ~vastdb_available THEN None ELSE map_type(type_name)

\* create_table, lines 395-409: the columns it works with and the fields of
\* the PyArrow schema.
columns_or_default(columns) == IF columns = <<>> THEN DefaultColumns ELSE columns

pa_fields(columns) ==
    [i \in DOMAIN columns |->
        [name |-> columns[i].name,
         type |-> map_to_arrow_type(columns[i].type),
         nullable |-> IF columns[i].nullable = <<>> THEN TRUE
                      ELSE columns[i].nullable[1]]]

\* What create_table meets from line 392 on: pa.field raises for a field
\* without a type, bucket.schema raises MissingSchema, schema.create_table
\* raises TableExists or creates the table, and the store may fail in another
\* way at any time.
create_table_answers(schema_name, table_name, fields) ==
    IF \E i \in DOMAIN fields : fields[i].type = None THEN {"pa.field"}
    ELSE {"Exception"}
         \cup (IF schema_name \notin bucket THEN {"MissingSchema"}
               ELSE IF <<schema_name, table_name>> \in DOMAIN tables THEN {"TableExists"}
               ELSE {"ok"})

\* f"Table '{table_name}' already exists"
TableExistsMessage(table_name) == "Table '" \o table_name \o "' already exists"

\* str(e) of the exceptions the operations do not name.
ErrorText(answer) ==
    CASE answer = "MissingSchema" -> "MissingSchema"
      [] answer = "pa.field" -> "field type is None"
      [] OTHER -> StoreErrorText

\* The "table" dict of a create_table result.
TableDescriptor(schema_name, table_name, columns, at) ==
    [name |-> table_name, schema |-> schema_name, columns |-> columns,
     created |-> isoformat(at), rows |-> 0]

\* create_table from line 392 on.
create_table_transaction(schema_name, table_name, columns, answer, at) ==
    IF answer = "ok"
    THEN SchemaResult(TRUE, "Table '" \o table_name \o "' created successfully",
                      TableDescriptor(schema_name, table_name, columns, at), answer)
    ELSE IF answer = "TableExists"
    THEN SchemaResult(FALSE, TableExistsMessage(table_name), NoSchema, answer)
    ELSE SchemaResult(FALSE, ErrorText(answer), NoSchema, answer)

\* The store after schema.create_table was answered.
created_table(schema_name, table_name, fields, answer) ==
    Store(bucket,
          IF answer = "ok" THEN (<<schema_name, table_name>> :> fields) @@ tables
          ELSE tables)

\* schema_controller.create_table: POST /{name}/tables.
handle_create_table(schema_name, table_name, request_columns) ==
    IF validate_vast_config(settings) # None
    THEN NotConfigured("api_create_table", schema_name)
    ELSE LET columns == columns_or_default(columns_or_default(request_columns))
             fields == pa_fields(columns)
         IN  \E connect_outcome \in ConnectOutcomes,
                answer \in create_table_answers(schema_name, table_name, fields) :
                schema_operation("api_create_table", schema_name, TRUE, connect_outcome,
                                 create_table_transaction(schema_name, table_name,
                                                          columns, answer, dbclock),
                                 created_table(schema_name, table_name, fields, answer))

\* create_table of the controller called with the user resolved: nothing but the
\* service and the store is touched.
api_create_table(schema_name, table_name, request_columns) ==
    /\ handle_create_table(schema_name, table_name, request_columns)
    /\ UNCHANGED <<settings, vastdb_available, vastdb_error, dpc, dcall, dfirst,
                   dresult, dbclock, not_schema>>

\* What the store answers inside the transaction of delete_schema.
delete_schema_answers(schema_name) ==
    {"Exception"}
    \cup (IF schema_name \in bucket THEN {"ok"} ELSE {"MissingSchema"})

\* delete_schema from the transaction on.
delete_schema_transaction(schema_name, answer) ==
    IF answer = "ok"
    THEN SchemaResult(TRUE, "Schema '" \o schema_name \o "' deleted successfully",
                      NoSchema, answer)
    ELSE IF answer = "MissingSchema"
    THEN SchemaResult(FALSE, SchemaNotFoundMessage(schema_name), NoSchema, answer)
    ELSE SchemaResult(FALSE, StoreErrorText, NoSchema, answer)

\* The store after schema.drop() was answered.
dropped_schema(schema_name, answer) ==
    IF answer = "ok"
    THEN Store(bucket \ {schema_name},
               [key \in {k \in DOMAIN tables : k[1] # schema_name} |-> tables[key]])
    ELSE Store(bucket, tables)

\* schema_controller.delete_schema: DELETE /{name}.
handle_delete_schema(schema_name) ==
    IF validate_vast_config(settings) # None
    THEN NotConfigured("api_delete_schema", schema_name)
    ELSE \E connect_outcome \in ConnectOutcomes,
            answer \in delete_schema_answers(schema_name) :
            schema_operation("api_delete_schema", schema_name, TRUE, connect_outcome,
                             delete_schema_transaction(schema_name, answer),
                             dropped_schema(schema_name, answer))

\* delete_schema of the controller called with the user resolved: nothing but the
\* service and the store is touched.
api_delete_schema(schema_name) ==
    /\ handle_delete_schema(schema_name)
    /\ UNCHANGED <<settings, vastdb_available, vastdb_error, dpc, dcall, dfirst,
                   dresult, dbclock, not_schema>>

\* schema_controller.list_tables: GET /{name}/tables, which calls get_schema.
handle_list_tables(schema_name) ==
    IF validate_vast_config(settings) # None
    THEN NotConfigured("api_list_tables", schema_name)
    ELSE \E connect_outcome \in ConnectOutcomes,
            answer \in get_schema_answers(schema_name) :
            schema_operation("api_list_tables", schema_name, TRUE, connect_outcome,
                             get_schema_transaction(schema_name, answer, dbclock),
                             Store(bucket, tables))

\* list_tables of the controller called with the user resolved: nothing but the
\* service and the store is touched.
api_list_tables(schema_name) ==
    /\ handle_list_tables(schema_name)
    /\ UNCHANGED <<settings, vastdb_available, vastdb_error, dpc, dcall, dfirst,
                   dresult, dbclock, not_schema>>

\* list_schemas from the transaction on: one descriptor per schema of the
\* bucket.
list_schemas_transaction(answer, at) ==
    IF answer = "ok"
    THEN LET names == Listed(bucket)
         IN  SchemaResult(TRUE, None,
                          [i \in DOMAIN names |-> SchemaDescriptor(names[i], at)], answer)
    ELSE SchemaResult(FALSE, StoreErrorText, NoSchema, answer)

\* schema_controller.list_schemas: GET /. Without a configuration it returns
\* a dict with success False.
handle_list_schemas ==
    IF validate_vast_config(settings) # None
    THEN /\ sreply' = SchemaReply("api_list_schemas", None, TRUE,
                          SchemaResult(FALSE, "VAST Database not configured. Please check environment variables.",
                                       NoSchema, "none"), 200)
         /\ UNCHANGED <<session, connection_error, connection_attempted,
                        connect_calls, bucket, tables>>
    ELSE \E connect_outcome \in ConnectOutcomes, answer \in {"ok", "Exception"} :
            schema_operation("api_list_schemas", None, TRUE, connect_outcome,
                             list_schemas_transaction(answer, dbclock),
                             Store(bucket, tables))

\* list_schemas of the controller called with the user resolved: nothing but the
\* service and the store is touched.
api_list_schemas ==
    /\ handle_list_schemas
    /\ UNCHANGED <<settings, vastdb_available, vastdb_error, dpc, dcall, dfirst,
                   dresult, dbclock, not_schema>>

\* connect from the transaction on, for what the store answers to
\* tx.bucket(self.bucket_name).
connect_transaction(answer) ==
    CASE answer = "ok" -> SchemaResult(TRUE, "Connected to VAST Database", NoSchema, answer)
      [] answer = "MissingBucket" ->
            SchemaResult(FALSE, "Bucket '" \o bucket_name \o "' not found", NoSchema, answer)
      [] answer = "ConnectionError" ->
            SchemaResult(FALSE, "Failed to connect to VAST Database: " \o StoreErrorText,
                         NoSchema, answer)
      [] OTHER ->
            SchemaResult(FALSE, "VAST Database error: " \o StoreErrorText, NoSchema, answer)

\* vastdb_service.connect() as the handler `op` calls it.
connect(op) ==
    IF vastdb_available /\ HasConnectionError(connection_error) /\ ~connection_attempted
    THEN /\ sreply' = SchemaReply(op, None, TRUE,
                          SchemaResult(FALSE, "VAST Database configuration error: "
                                                  \o connection_error,
                                       NoSchema, "none"), reply_status(op, <<>>))
         /\ UNCHANGED <<session, connection_error, connection_attempted,
                        connect_calls, bucket, tables>>
    ELSE \E connect_outcome \in ConnectOutcomes, answer \in StoreOutcomes("connect") :
            schema_operation(op, None, TRUE, connect_outcome,
                             connect_transaction(answer), Store(bucket, tables))

\* What the two status handlers answer without a configuration: a dict, and
\* the service is not called.
StatusNotConfigured(op) ==
    /\ sreply' = SchemaReply(op, None, TRUE,
                             SchemaResult(FALSE, "VAST Database not configured",
                                          NoSchema, "none"), 200)
    /\ UNCHANGED <<session, connection_error, connection_attempted, connect_calls,
                   bucket, tables>>

\* schema_controller.get_connection_info: GET /connection.
handle_get_connection_info ==
    IF validate_vast_config(settings) # None
    THEN StatusNotConfigured("api_get_connection_info")
    ELSE connect("api_get_connection_info")

\* A mutation of handle_schemas_health: the service is not asked.
handle_schemas_health_static == StatusNotConfigured("schemas_health")

\* schema_controller.schemas_health: GET /health/schemas, which declares no
\* dependency.
handle_schemas_health ==
    IF validate_vast_config(settings) # None
    THEN StatusNotConfigured("schemas_health")
    ELSE connect("schemas_health")

\* datetime.utcnow() moves on.
TickDb ==
    /\ dbclock < MaxDbClock
    /\ dbclock' = dbclock + 1
    /\ UNCHANGED <<dbvars, bucket, tables, sreply, not_schema>>

\* The store and the schema operations before the first request.
ConstructSchemas ==
    /\ bucket = {}
    /\ tables = <<>>
    /\ dbclock = 0
    /\ sreply = NoSchemaReply

(***************************************************************************)
(* Error handlers: handle_vastdb_error and the exception handlers of the   *)
(* application.                                                            *)
(***************************************************************************)
\* The exception classes handle_vastdb_error names, as vastdb.errors exports
\* them; an instance of a subclass is an instance of the class.
VastDbErrorTypes ==
    {"MissingBucket", "MissingSchema", "MissingTable", "MissingProjection",
     "SchemaExists", "TableExists", "NotFound", "Forbidden", "BadRequest",
     "InternalServerError", "ServiceUnavailable", "ConnectionError",
     "NotSupported", "NotSupportedSchema", "InvalidArgument", "TooLargeRequest",
     "ImportFilesError"}

\* Exception classes handle_vastdb_error does not name.
OtherErrorTypes == {"Exception", "KeyError", "RuntimeError"}

\* str(error) of the errors handled.
ErrorTexts == {"text-1", "text-2"}

\* An exception: its class and its str().
Error(type, text) == [type |-> type, text |-> text]

Errors == {Error(type, text) : type \in VastDbErrorTypes \cup OtherErrorTypes, text \in ErrorTexts}

\* error.message of an ImportFilesError: an attribute of its own.
message_of(error) == "message of " \o error.text

\* The dicts handle_vastdb_error returns.
ErrorInfo(message, status_code) ==
    [success |-> FALSE, message |-> message, status_code |-> status_code]

\* A mutation of unexpected_error: the text of the error is handed on.
unexpected_error_with_text(error) == ErrorInfo(error.text, 500)

\* handle_vastdb_error, lines 115-121: the default.
unexpected_error(error) == ErrorInfo("An unexpected error occurred", 500)

\* handle_vastdb_error: the isinstance tests in their order.
handle_vastdb_error(error) ==
    IF error.type \in {"MissingBucket", "MissingSchema", "MissingTable", "MissingProjection"}
    THEN ErrorInfo(error.text, 404)
    ELSE IF error.type \in {"SchemaExists", "TableExists"}
    THEN ErrorInfo(error.text, 409)
    ELSE IF error.type \in {"BadRequest", "InvalidArgument", "NotSupportedSchema"}
    THEN ErrorInfo(error.text, 400)
    ELSE IF error.type = "TooLargeRequest" THEN ErrorInfo(error.text, 413)
    ELSE IF error.type = "Forbidden" THEN ErrorInfo(error.text, 403)
    ELSE IF error.type = "NotSupported" THEN ErrorInfo(error.text, 501)
    ELSE IF error.type = "ServiceUnavailable" THEN ErrorInfo(error.text, 503)
    ELSE IF error.type = "ConnectionError"
    THEN ErrorInfo("Failed to connect to VAST Database", 502)
    ELSE IF error.type = "ImportFilesError" THEN ErrorInfo(message_of(error), 400)
    ELSE IF error.type = "InternalServerError" THEN ErrorInfo(error.text, 500)
    ELSE IF error.type = "NotFound" THEN ErrorInfo(error.text, 404)
    ELSE unexpected_error(error)

\* The exceptions a request handler lets through to the application: the
\* classes setup_exception_handlers registers and two it does not. An
\* HTTPException carries its detail as text and the status 404.
AppErrorTypes ==
    {"HTTPException", "ValueError", "ConnectionError", "TimeoutError", "KeyError",
     "RuntimeError"}

AppErrors == {Error(type, text) : type \in AppErrorTypes, text \in ErrorTexts}

\* The values of NODE_ENV.
Environments == {"development", "production", "staging"}

\* A JSONResponse; a key the content does not have is Missing.
JSONResponse(status_code, error, details, traceback) ==
    [status_code |-> status_code,
     content |-> [error |-> error, details |-> details, traceback |-> traceback]]

\* traceback.format_exc() while exc is handled.
format_exc(exc) == "Traceback: " \o exc.type \o ": " \o exc.text

\* A mutation of IsDevelopment: every environment but production.
IsDevelopmentOrUnknown(env) == env # "production"

\* `settings.NODE_ENV == "development"`
IsDevelopment(env) == env = "development"

\* general_exception_handler
general_exception_handler(exc) ==
    IF IsDevelopment(node_env)
    THEN JSONResponse(500, "Internal server error", exc.text, format_exc(exc))
    ELSE JSONResponse(500, "Internal server error", Missing, Missing)

\* The handler the application picks for an exception: the one registered for
\* its class, and the handler of Exception for the others.
handler_of(exc) ==
    IF exc.type \in {"HTTPException", "ValueError", "ConnectionError", "TimeoutError"}
    THEN exc.type
    ELSE "Exception"

\* setup_exception_handlers: the response of the application to an exception.
exception_response(exc) ==
    CASE handler_of(exc) = "HTTPException" -> JSONResponse(404, exc.text, Missing, Missing)
      [] handler_of(exc) = "ValueError" ->
            JSONResponse(400, "Validation error", exc.text, Missing)
      [] handler_of(exc) = "ConnectionError" ->
            JSONResponse(502, "Connection error", "Cannot connect to VAST server", Missing)
      [] handler_of(exc) = "TimeoutError" ->
            JSONResponse(408, "Request timeout", Missing, Missing)
      [] OTHER -> general_exception_handler(exc)

\* An error handled: the handler, the error and the answer.
Handled(handler, error, answer) == [handler |-> handler, error |-> error, answer |-> answer]

NotHandled == Handled(None, Error(None, None), <<>>)

\* handle_vastdb_error is called with an error.
translate(error) ==
    /\ handled' = [last |-> Handled("handle_vastdb_error", error, handle_vastdb_error(error)),
                   before |-> handled.last]
    /\ UNCHANGED <<node_env, not_err>>

\* An exception leaves a request handler and the application answers.
app_exception(exc) ==
    /\ handled' = [last |-> Handled(handler_of(exc), exc, exception_response(exc)),
                   before |-> handled.last]
    /\ UNCHANGED <<node_env, not_err>>

\* The application with settings.NODE_ENV = env, before the first error.
ConstructErrorHandlers(env) ==
    /\ node_env = env
    /\ handled = [last |-> NotHandled, before |-> NotHandled]

(***************************************************************************)
(* authenticate_token and POST /auth/logout                                *)
(***************************************************************************)
\* payload.get(key)
payload_get(dict, key) == IF key \in DOMAIN dict THEN dict[key] ELSE None

\* The HTTPException(401) authenticate_token raises for whatever went wrong.
CredentialsRefused == [kind |-> "Could not validate credentials", returned |-> <<>>]

\* A mutation of authenticate_token: a token is honoured only while the
\* service holds a cached session.
authenticate_token_with_session(token, at) ==
    LET decoded == decode_token(token, at)
    IN  IF decoded.kind = "ok" /\ DOMAIN clients # {}
        THEN [kind |-> "ok",
              returned |-> [k \in ClaimKeys |-> payload_get(decoded.returned, k)]]
        ELSE CredentialsRefused

\* A mutation of authenticate_token: an expired token is still honoured, with
\* the fields its payload has.
authenticate_token_expired_too(token, at) ==
    LET decoded == decode_token(token, at)
    IN  IF decoded.kind \in {"ok", "Token expired"}
        THEN [kind |-> "ok",
              returned |-> [k \in ClaimKeys |-> payload_get(token.body, k)]]
        ELSE CredentialsRefused

\* authenticate_token at the time `at`: the six fields of the payload, or the
\* 401 that replaces every exception of decode_token.
authenticate_token(token, at) ==
    LET decoded == decode_token(token, at)
    IN  IF decoded.kind = "ok"
        THEN [kind |-> "ok",
              returned |-> [k \in ClaimKeys |-> payload_get(decoded.returned, k)]]
        ELSE CredentialsRefused

\* The server state a call of authenticate_token is made in: the keys of the
\* session cache, the timestamps the rate limiter holds per client key, the
\* logouts answered.
ServerState ==
    [sessions |-> DOMAIN clients,
     recorded |-> {<<k, Len(requests[k])>> : k \in DOMAIN requests},
     logouts |-> Len(logouts)]

\* One call of authenticate_token as `authn` records it; `again` tells that
\* the call before it presented the same token at the same time while the
\* session cache, the rate limiter's deques and the logouts were all
\* different.
Authenticated(how, of, at, outcome, again) ==
    [how |-> how, of |-> of, at |-> at, kind |-> outcome.kind,
     returned |-> outcome.returned, state |-> ServerState, again |-> again]

NotAuthenticated ==
    [how |-> None, of |-> <<>>, at |-> 0, kind |-> None, returned |-> <<>>,
     state |-> [sessions |-> {}, recorded |-> {}, logouts |-> 0], again |-> FALSE]

\* A request to a protected route: Depends(get_current_user) runs
\* authenticate_token on the presented token.
get_current_user(how) ==
    /\ minted # <<>>
    /\ LET outcome == authenticate_token(Presented(minted[1].token, how), utc)
           again == /\ authn.how = how /\ authn.of = minted /\ authn.at = utc
                    /\ authn.state.sessions # ServerState.sessions
                    /\ authn.state.recorded # ServerState.recorded
                    /\ authn.state.logouts # ServerState.logouts
       IN  authn' = Authenticated(how, minted, utc, outcome, again)
    /\ UNCHANGED <<logouts, served, not_token>>

\* What POST /auth/logout answers.
LogoutReply == [success |-> TRUE, message |-> "Logged out successfully"]

\* POST /auth/logout: the reply is returned and nothing else is done.
logout ==
    /\ Len(logouts) < MaxLogouts
    /\ logouts' = Append(logouts, LogoutReply)
    /\ UNCHANGED <<authn, served, not_token>>

\* The user a request is served with, or the refusal of the dependency.
NoUser == [kind |-> None, returned |-> <<>>]

\* A request served, as `served` records it: its number, the route, the token
\* it presented (None: no credentials), what the route's dependency gave, the
\* status and the detail of the response.
Served(route, how, user, status, detail) ==
    [n |-> served.n + 1, route |-> route, how |-> how, user |-> user,
     status |-> status, detail |-> detail]

NothingServed ==
    [n |-> 0, route |-> None, how |-> None, user |-> NoUser, status |-> 0,
     detail |-> None]

\* get_current_user_optional at the time `at`: the user, or None when there
\* are no credentials or decode_token raised its HTTPException; any other
\* exception is not caught. `credentials` is <<>> or holds the token.
get_current_user_optional(credentials, at) ==
    IF credentials = <<>> THEN NoUser
    ELSE LET decoded == decode_token(credentials[1], at)
         IN  IF decoded.kind = "ok"
             THEN [kind |-> "ok",
                   returned |-> [k \in ClaimKeys |-> payload_get(decoded.returned, k)]]
             ELSE IF decoded.kind \in {"Token expired", "Invalid token"} THEN NoUser
             ELSE [kind |-> decoded.kind, returned |-> <<>>]

\* What the store, the connection and `sreply` are when no handler ran.
NoHandler ==
    UNCHANGED <<session, connection_error, connection_attempted, connect_calls,
                bucket, tables, sreply>>

\* A route that declares Depends(get_current_user): the dependency is resolved
\* first and the handler is called with the user, or the 401 of
\* authenticate_token is the response.
protected(how, route, handler) ==
    /\ minted # <<>>
    /\ LET user == authenticate_token(Presented(minted[1].token, how), utc)
       IN  IF user.kind = "ok"
           THEN /\ handler
                /\ served' = Served(route, how, user, sreply'.status, None)
           ELSE /\ NoHandler
                /\ served' = Served(route, how, user, 401, user.kind)
    /\ UNCHANGED <<authvars, svcvars>>

\* A route without a dependency.
open(route, handler) ==
    /\ handler
    /\ served' = Served(route, None, NoUser, sreply'.status, None)
    /\ UNCHANGED <<authvars, svcvars>>

\* auth_controller.get_current_user_info: GET /auth/me, with
\* Depends(get_current_user_optional); `how` is None for a request without
\* credentials.
get_current_user_info(how) ==
    /\ minted # <<>>
    /\ LET credentials == IF how = None THEN <<>> ELSE <<Presented(minted[1].token, how)>>
           user == get_current_user_optional(credentials, utc)
       IN  served' = IF user = NoUser
                     THEN Served("get_current_user_info", how, user, 401, "Not authenticated")
                     ELSE IF user.kind = "ok"
                     THEN Served("get_current_user_info", how, user, 200, None)
                     ELSE Served("get_current_user_info", how, user, 500, user.kind)
    /\ NoHandler
    /\ UNCHANGED <<authvars, svcvars>>

\* A mutation of LoginFailed: the result of authenticate is not looked at.
LoginFailedNever(auth_result) == FALSE

\* `if not auth_result["success"]`
LoginFailed(auth_result) == ~auth_result.success

\* login, lines 37-44: the claims of the token.
token_payload(request, auth_result) ==
    [username |-> request.username, vastHost |-> request.host,
     vastPort |-> request.port, tenant |-> request.tenant,
     accessToken |-> auth_result.accessToken,
     refreshToken |-> auth_result.refreshToken]

\* encode_token with both readings of the clock at the time `at`: the token,
\* or the exception of the lifetime parser.
encode_token(claims, at) ==
    LET expires_delta == parse_expires_in(jwt_expires_in)
    IN  IF expires_delta.raises # None
        THEN [raises |-> expires_delta.raises, token |-> <<>>]
        ELSE LET stamped == SetItem(SetItem(claims, "exp",
                                            DateTime(at + expires_delta.delta)),
                                    "iat", DateTime(at))
             IN  [raises |-> None, token |-> jwt_encode(stamped, Secret, Algorithm)]

\* login from the return of vast_service.authenticate on: 401 with the
\* message of the service, or the token and 200, or 500 "Login failed" for an
\* exception of encode_token. `request` is the call of authenticate, which
\* holds the fields of the LoginRequest.
login_answers(request, auth_result) ==
    IF LoginFailed(auth_result)
    THEN /\ served' = Served("login", None, NoUser, 401, auth_result.message)
         /\ UNCHANGED <<minted, mint_error>>
    ELSE LET claims == token_payload(request, auth_result)
             encoded == encode_token(claims, utc)
         IN  IF encoded.raises # None
             THEN /\ served' = Served("login", None, NoUser, 500, "Login failed")
                  /\ mint_error' = encoded.raises
                  /\ UNCHANGED minted
             ELSE /\ served' = Served("login", None, NoUser, 200, None)
                  /\ minted' = <<[token |-> encoded.token, claims |-> claims]>>
                  /\ mint_error' = None

\* POST /auth/login of the admitted request r up to the first await inside
\* vast_service.authenticate.
login(r, host, port, username, tenant) ==
    /\ rpc[r] = "call_next"
    /\ served.n < MaxServed
    /\ authenticate(r, host, port, username, tenant)

\* An await of the login of request r ends (`awaited` is after_probe or
\* after_post): authenticate goes on to its next await, or it returns, login
\* answers and dispatch returns the response.
login_resumes(r, awaited) ==
    /\ rpc[r] = "call_next"
    /\ vcall[r].op = "authenticate"
    /\ awaited
    /\ IF vlast' = NoReturn
       THEN UNCHANGED <<rpc, rkey, response, served, minted, mint_error>>
       ELSE /\ login_answers(vlast'.call, vlast'.result)
            /\ rpc' = [rpc EXCEPT ![r] = "idle"]
            /\ rkey' = [rkey EXCEPT ![r] = Absent]
            /\ response' = [key |-> rkey[r], status |-> served'.status]
    /\ UNCHANGED <<requests, now, admitted, dbvars, jwt_expires_in, utc, mpc, payload,
                   verdict, schemavars, errvars, authn, logouts>>

\* `await call_next(request)` of the admitted request r, which is not inside
\* login: the application downstream of the rate limiter serves it, and
\* dispatch returns the response.
call_next(r, downstream) ==
    /\ rpc[r] = "call_next"
    /\ r \in DOMAIN vpc => vpc[r] = "idle"
    /\ served.n < MaxServed
    /\ downstream
    /\ rpc' = [rpc EXCEPT ![r] = "idle"]
    /\ rkey' = [rkey EXCEPT ![r] = Absent]
    /\ response' = [key |-> rkey[r], status |-> served'.status]
    /\ UNCHANGED <<requests, now, admitted, settings, vastdb_available, vastdb_error,
                   dpc, dcall, dfirst, dresult, dbclock, errvars, authn, logouts>>

\* No token has been presented, no logout answered and no request served.
ConstructTokens ==
    /\ authn = NotAuthenticated
    /\ logouts = <<>>
    /\ served = NothingServed

(***************************************************************************)
(* Specifications                                                          *)
(***************************************************************************)
\* RateLimiterMiddleware.__init__
ConstructRateLimiter ==
    /\ requests = <<>>
    /\ now = 0
    /\ rpc = [r \in Reqs |-> "idle"]
    /\ rkey = [r \in Reqs |-> Absent]
    /\ response = [key |-> Absent, status |-> 0]
    /\ admitted = <<>>

\* The rate limiter alone; the store service stays as constructed from the
\* default settings.
InitRateLimiter ==
    /\ ConstructRateLimiter
    /\ ConstructVastDb(TRUE, DefaultSettings)
    /\ ConstructAuthHandler(DefaultExpiresIn)
    /\ ConstructVastService
    /\ ConstructSchemas
    /\ ConstructErrorHandlers("development")
    /\ ConstructTokens

NextRateLimiter ==
    \/ \E r \in Reqs, request \in HttpRequests : dispatch(r, request)
    \/ \E r \in Reqs : call_next_returns(r)
    \/ Tick

SpecRateLimiter == InitRateLimiter /\ [][NextRateLimiter]_vars

\* The rate limiter at one reading of the clock, met by requests with every
\* shape of X-Forwarded-For header: none, empty, one address, several.
KeyForwardedValues ==
    {Absent, <<>>, <<" ", "a", ",", "b">>, <<"b", ",", "a">>, <<"b", " ">>}

KeyRequests == [forwarded : KeyForwardedValues, client : ClientHosts]

NextClientKeys ==
    \/ \E r \in Reqs, request \in KeyRequests : dispatch(r, request)
    \/ \E r \in Reqs : call_next_returns(r)

SpecClientKeys == InitRateLimiter /\ [][NextClientKeys]_vars

\* The store service alone, constructed in every environment.
InitVastDb ==
    /\ ConstructRateLimiter
    /\ \E sdk \in BOOLEAN, cfg \in SettingsChoices : ConstructVastDb(sdk, cfg)
    /\ ConstructAuthHandler(DefaultExpiresIn)
    /\ ConstructVastService
    /\ ConstructSchemas
    /\ ConstructErrorHandlers("development")
    /\ ConstructTokens

NextVastDb ==
    \/ \E c \in Callers, call \in Calls : begin(c, call)
    \/ \E c \in Callers : operation(c)
    \/ \E c \in Callers : finish(c)

SpecVastDb == InitVastDb /\ [][NextVastDb]_vars

\* The token handler alone, run with every lifetime setting.
InitAuth ==
    /\ ConstructRateLimiter
    /\ ConstructVastDb(TRUE, DefaultSettings)
    /\ \E expires_in \in ExpiresInChoices : ConstructAuthHandler(expires_in)
    /\ ConstructVastService
    /\ ConstructSchemas
    /\ ConstructErrorHandlers("development")
    /\ ConstructTokens

NextAuth ==
    \/ \E claims \in ClaimsChoices : encode_token_exp(claims)
    \/ encode_token_iat
    \/ \E how \in Presentations : verify(how)
    \/ TickUtc

SpecAuth == InitAuth /\ [][NextAuth]_vars

\* The texts settings.JWT_EXPIRES_IN can hold: digits, a sign, the unit
\* letters and another letter, in every order.
LifetimeChars == {"1", "2", "-", "h", "m", "d", "x"}

LifetimeTexts == UNION {[1 .. n -> LifetimeChars] : n \in 0 .. MaxLifetimeLen}

\* Tokens minted at one reading of the clock under every lifetime setting.
InitLifetimes ==
    /\ ConstructRateLimiter
    /\ ConstructVastDb(TRUE, DefaultSettings)
    /\ \E expires_in \in LifetimeTexts : ConstructAuthHandler(expires_in)
    /\ ConstructVastService
    /\ ConstructSchemas
    /\ ConstructErrorHandlers("development")
    /\ ConstructTokens

NextLifetimes ==
    \/ \E claims \in ClaimsChoices : encode_token_exp(claims)
    \/ encode_token_iat

SpecLifetimes == InitLifetimes /\ [][NextLifetimes]_vars

\* The cluster service alone.
InitVastService ==
    /\ ConstructRateLimiter
    /\ ConstructVastDb(TRUE, DefaultSettings)
    /\ ConstructAuthHandler(DefaultExpiresIn)
    /\ ConstructVastService
    /\ ConstructSchemas
    /\ ConstructErrorHandlers("development")
    /\ ConstructTokens

NextVastService ==
    \/ \E c \in SvcCallers, host \in Hosts, port \in Ports, username \in Users,
          tenant \in Tenants : authenticate(c, host, port, username, tenant)
    \/ \E c \in SvcCallers, host \in Hosts, port \in Ports : test_connectivity(c, host, port)
    \/ \E c \in SvcCallers, answer \in ProbeAnswers : probe_returns(c, answer)
    \/ \E c \in SvcCallers, answer \in PostAnswers : post_returns(c, answer)
    \/ \E c \in SvcCallers, host \in Hosts, port \in Ports :
          verify_token(c, "access-1", host, port)
    \/ \E c \in SvcCallers, host \in Hosts, port \in Ports, tenant \in Tenants :
          get_tenants(c, host, port, tenant)
    \/ \E c \in SvcCallers, host \in Hosts, port \in Ports, tenant \in Tenants :
          get_vip_pools(c, host, port, tenant)
    \/ \E c \in SvcCallers, answer \in GetAnswers : get_returns(c, answer)
    \/ \E c \in SvcCallers, host \in Hosts, port \in Ports, tenant \in Tenants :
          client_info(c, host, port, tenant)
    \/ cleanup_sessions
    \/ TickClock

SpecVastService == InitVastService /\ [][NextVastService]_vars

\* Two users log in to one cluster and tenant at the same time, each answered
\* its own access token or refused, while the tenants and VIP pools of that
\* cluster are listed.
LoginUsers == {"alice", "bob"}

LoginAccessTokens == {"access-1", "access-2"}

\* The cluster issues each user an access token of its own.
TokenOf(username) == IF username = "alice" THEN "access-1" ELSE "access-2"

UserPostAnswers ==
    {Response(200, TRUE, d, JsonText(d)) :
        d \in {[access |-> a, refresh |-> "refresh-1", message |-> Missing] :
                  a \in LoginAccessTokens}}
    \cup {answer \in PostAnswers : answer.raises = None /\ answer.status = 401
                                   /\ answer.parses /\ answer.json.message # Missing}

NextLogins ==
    \/ \E c \in LoginCallers, host \in Hosts, port \in Ports, username \in LoginUsers :
          authenticate(c, host, port, username, "default")
    \/ \E c \in LoginCallers, answer \in ProbeAnswers : probe_returns(c, answer)
    \/ \E c \in LoginCallers, answer \in UserPostAnswers :
          /\ answer.status = 200 => answer.json.access = TokenOf(vcall[c].username)
          /\ post_returns(c, answer)
    \/ \E c \in LoginCallers, host \in Hosts, port \in Ports :
          get_tenants(c, host, port, "default")
    \/ \E c \in LoginCallers, host \in Hosts, port \in Ports :
          get_vip_pools(c, host, port, "default")
    \/ \E c \in LoginCallers, answer \in GetAnswers : get_returns(c, answer)

InitLogins ==
    /\ ConstructRateLimiter
    /\ ConstructVastDb(TRUE, DefaultSettings)
    /\ ConstructAuthHandler(DefaultExpiresIn)
    /\ ConstructLoginService
    /\ ConstructSchemas
    /\ ConstructErrorHandlers("development")
    /\ ConstructTokens

SpecLogins == InitLogins /\ [][NextLogins]_vars

\* The schema operations alone, with the store configured or not and the SDK
\* importable or not.
InitSchemas ==
    /\ ConstructRateLimiter
    /\ \E sdk \in BOOLEAN, cfg \in {ConfiguredSettings, DefaultSettings} :
          ConstructVastDb(sdk, cfg)
    /\ ConstructAuthHandler(DefaultExpiresIn)
    /\ ConstructVastService
    /\ ConstructSchemas
    /\ ConstructErrorHandlers("development")
    /\ ConstructTokens

NextSchemas ==
    \/ \E schema_name \in SchemaNames, fail_if_exists \in BOOLEAN :
          create_schema(schema_name, fail_if_exists)
    \/ \E schema_name \in SchemaNames : api_create_schema(schema_name)
    \/ \E schema_name \in SchemaNames : api_get_schema(schema_name)
    \/ \E schema_name \in TableSchemaNames, table_name \in TableNames,
          request_columns \in ColumnsChoices :
          api_create_table(schema_name, table_name, request_columns)
    \/ \E schema_name \in SchemaNames : api_delete_schema(schema_name)
    \/ \E schema_name \in TableSchemaNames : api_list_tables(schema_name)
    \/ api_list_schemas
    \/ TickDb

SpecSchemas == InitSchemas /\ [][NextSchemas]_vars

\* The two services, which share no state: each is called while the other is
\* as it was constructed.
InitServices ==
    /\ ConstructRateLimiter
    /\ \E sdk \in BOOLEAN, cfg \in {ConfiguredSettings, DefaultSettings} : ConstructVastDb(sdk, cfg)
    /\ ConstructAuthHandler(DefaultExpiresIn)
    /\ ConstructVastService
    /\ ConstructSchemas
    /\ ConstructErrorHandlers("development")
    /\ ConstructTokens

NextServices ==
    \/ /\ ConstructVastDb(vastdb_available, settings)
       /\ NextVastService
    \/ /\ ConstructVastService
       /\ NextVastDb

SpecServices == InitServices /\ [][NextServices]_vars

\* The error handlers alone, in each environment.
InitErrors ==
    /\ ConstructRateLimiter
    /\ ConstructVastDb(TRUE, DefaultSettings)
    /\ ConstructAuthHandler(DefaultExpiresIn)
    /\ ConstructVastService
    /\ ConstructSchemas
    /\ \E env \in Environments : ConstructErrorHandlers(env)
    /\ ConstructTokens

NextErrors ==
    \/ \E error \in Errors : translate(error)
    \/ \E exc \in AppErrors : app_exception(exc)

SpecErrors == InitErrors /\ [][NextErrors]_vars

\* The answers of the cluster to a login: the probe is answered, and the
\* login is refused or returns its tokens, with or without a refresh token.
LoginProbeAnswers == {answer \in ProbeAnswers : answer.raises = None /\ answer.status = 200}

LoginPostAnswers ==
    {answer \in PostAnswers :
        /\ answer.raises = None /\ answer.parses
        /\ \/ answer.status = 401 /\ answer.json.message # Missing
           \/ answer.status = 200 /\ answer.json.access = "access-1"
                                  /\ answer.json.refresh # Missing}

\* Tokens presented to authenticate_token while the clock passes their expiry
\* and while, in between, users log out, requests are admitted and rejected
\* by the rate limiter, users log in (successfully or not) to the cluster, and
\* cached sessions are overwritten and evicted.  One token is minted, and the
\* requests the rate limiter counts come before the first login to the cluster.
InitTokens ==
    /\ ConstructRateLimiter
    /\ ConstructVastDb(TRUE, DefaultSettings)
    /\ ConstructAuthHandler(<<"2", "m">>)
    /\ ConstructVastService
    /\ ConstructSchemas
    /\ ConstructErrorHandlers("development")
    /\ ConstructTokens

NextTokens ==
    \/ /\ minted = <<>>
       /\ \E claims \in {c \in ClaimsChoices : c.tenant # None} : encode_token_exp(claims)
    \/ encode_token_iat
    \/ \E how \in {"minted", "other secret"} : get_current_user(how)
    \/ logout
    \/ /\ utc < MaxTokenUtc
       /\ TickUtc
    \/ \E host \in Hosts, port \in Ports, username \in Users :
          authenticate(1, host, port, username, "default")
    \/ \E answer \in LoginProbeAnswers : probe_returns(1, answer)
    \/ \E answer \in LoginPostAnswers : post_returns(1, answer)
    \/ cleanup_sessions
    \/ TickClock
    \/ /\ ConstructVastService
       /\ dispatch(1, [forwarded |-> Absent, client |-> Absent])
    \/ /\ ConstructVastService
       /\ call_next_returns(1)

SpecTokens == InitTokens /\ [][NextTokens]_vars

\* The application as a whole: requests pass the rate limiter, then the
\* dependency of their route, then the handler. The store is configured, a
\* user logs in until a token with a lifetime of two minutes is minted, the
\* token is presented, and its time moves on while the rate limiter's window
\* stays open.
\* The first request slot is a client without a peer address, the others are
\* the peer "a".
PipelineRequest(r) == [forwarded |-> Absent, client |-> IF r = 1 THEN Absent ELSE <<"a">>]

PipelineNames == {"a"}

PipelineProbeAnswers ==
    {answer \in ProbeAnswers : answer.raises \in {None, "ConnectError"}
                                /\ answer.status \in {0, 200}}

PipelinePresentations == {"minted", "other secret"}

InitPipeline ==
    /\ ConstructRateLimiter
    /\ ConstructVastDb(TRUE, ConfiguredSettings)
    /\ ConstructAuthHandler(<<"2", "m">>)
    /\ ConstructVastService
    /\ ConstructSchemas
    /\ ConstructErrorHandlers("development")
    /\ ConstructTokens

NextPipeline ==
    \/ /\ minted = <<>>
       /\ \E host \in Hosts, port \in Ports, username \in Users :
             login(1, host, port, username, "default")
    \/ \E answer \in PipelineProbeAnswers : login_resumes(1, after_probe(1, answer))
    \/ \E answer \in UserPostAnswers :
          /\ answer.status = 200 => answer.json.access = TokenOf(vcall[1].username)
          /\ login_resumes(1, after_post(1, answer))
    \/ /\ utc < MaxTokenUtc
       /\ TickUtc
    \/ \E r \in Reqs : dispatch(r, PipelineRequest(r))
    \/ \E r \in Reqs, how \in PipelinePresentations :
          call_next(r, protected(how, "api_get_connection_info",
                                 handle_get_connection_info))
    \/ \E r \in Reqs, how \in PipelinePresentations :
          call_next(r, protected(how, "api_list_schemas", handle_list_schemas))
    \/ \E r \in Reqs, how \in PipelinePresentations, schema_name \in PipelineNames :
          call_next(r, protected(how, "api_create_schema",
                                 handle_create_schema(schema_name)))
    \/ \E r \in Reqs, how \in PipelinePresentations, schema_name \in PipelineNames :
          call_next(r, protected(how, "api_get_schema", handle_get_schema(schema_name)))
    \/ \E r \in Reqs, how \in PipelinePresentations, schema_name \in PipelineNames :
          call_next(r, protected(how, "api_delete_schema",
                                 handle_delete_schema(schema_name)))
    \/ \E r \in Reqs, how \in PipelinePresentations, schema_name \in PipelineNames :
          call_next(r, protected(how, "api_create_table",
                                 handle_create_table(schema_name, "t", <<>>)))
    \/ \E r \in Reqs, how \in PipelinePresentations, schema_name \in PipelineNames :
          call_next(r, protected(how, "api_list_tables", handle_list_tables(schema_name)))
    \/ \E r \in Reqs : call_next(r, open("schemas_health", handle_schemas_health))
    \/ \E r \in Reqs, how \in PipelinePresentations \cup {None} :
          call_next(r, get_current_user_info(how))

SpecPipeline == InitPipeline /\ [][NextPipeline]_vars

\* POST /auth/login behind the rate limiter: two users log in to one cluster
\* and tenant at the same time, the cluster is reachable or not and answers
\* each login with the user's own tokens or refuses it; the lifetime setting
\* is readable or not. The token minted last is presented to GET /auth/me.
UserLoginAnswers ==
    {Response(200, TRUE, d, JsonText(d)) :
        d \in {[access |-> a, refresh |-> f, message |-> Missing] :
                  a \in LoginAccessTokens, f \in {None, "refresh-1"}}}
    \cup {answer \in PostAnswers : answer.raises = None /\ answer.status = 401
                                   /\ answer.parses /\ answer.json.message # Missing}

InitLoginRoute ==
    /\ ConstructRateLimiter
    /\ ConstructVastDb(TRUE, ConfiguredSettings)
    /\ \E expires_in \in {<<"2", "m">>, <<"x">>} : ConstructAuthHandler(expires_in)
    /\ ConstructLoginService
    /\ ConstructSchemas
    /\ ConstructErrorHandlers("development")
    /\ ConstructTokens

NextLoginRoute ==
    \/ \E r \in Reqs : dispatch(r, PipelineRequest(r))
    \/ \E r \in Reqs \cap LoginCallers, host \in Hosts, port \in Ports,
          username \in LoginUsers :
          login(r, host, port, username, "default")
    \/ \E r \in Reqs \cap LoginCallers, answer \in PipelineProbeAnswers :
          login_resumes(r, after_probe(r, answer))
    \/ \E r \in Reqs \cap LoginCallers, answer \in UserLoginAnswers :
          /\ answer.status = 200 => answer.json.access = TokenOf(vcall[r].username)
          /\ login_resumes(r, after_post(r, answer))
    \/ /\ utc < MaxTokenUtc
       /\ TickUtc
    \/ \E r \in Reqs, how \in PipelinePresentations :
          call_next(r, get_current_user_info(how))

SpecLoginRoute == InitLoginRoute /\ [][NextLoginRoute]_vars

(***************************************************************************)
(* Claims about RateLimiterMiddleware, checked under SpecRateLimiter.      *)
(***************************************************************************)
\* The client keys requests can carry.
ClientKeys == {get_client_ip(request) : request \in HttpRequests}

\* The timestamps of a sequence that are no older than current_time - period.
InWindow(tss, current_time) ==
    LET Recent(ts) == ts >= current_time - period IN SelectSeq(tss, Recent)

\* The last n entries of a sequence.
LastN(tss, n) == SubSeq(tss, Len(tss) - n + 1, Len(tss))

\* C1: every dispatch drops exactly the key's timestamps older than
\* now - period; it admits (appends now, goes on to call_next) exactly when
\* fewer than `calls` previously admitted requests of the key have a timestamp
\* >= now - period, and otherwise answers 429 and leaves the evicted sequence
\* as it is, recording nothing.
C1_DispatchContract ==
    [][\A r \in Reqs, k \in ClientKeys :
         (rpc[r] = "idle" /\ now' = now /\ admission(r, k)) =>
            LET kept == InWindow(Deque(requests, k), now)
                prior == Len(InWindow(Log(k), now))
                admit == rpc'[r] = "call_next"
            IN  /\ admit <=> prior < calls
                /\ admit => /\ requests'[k] = Append(kept, now)
                            /\ admitted'[k] = Append(Log(k), now)
                /\ ~admit => /\ requests'[k] = kept
                             /\ response' = [key |-> k, status |-> 429]
                             /\ admitted' = admitted
                /\ \A k2 \in DOMAIN requests \ {k} : requests'[k2] = requests[k2]
      ]_vars

\* C1 witness: a request was answered 429 while the key's sequence, already
\* evicted down to the window, holds `calls` timestamps and one of the key's
\* admitted timestamps has left the window.
C1_Witness ==
    /\ response.status = 429
    /\ response.key \in DOMAIN requests
    /\ Len(requests[response.key]) = calls
    /\ Len(Log(response.key)) > calls
    /\ requests[response.key][1] >= now - period
    /\ Log(response.key)[1] < now - period

\* C2: when the last `calls` admitted requests of a key lie within one window,
\* the key's next request is rejected while all of them are still inside the
\* trailing window [now - period, now], and is admitted once more than
\* `period` seconds have passed since the first of them.
C2_RejectThenReadmit ==
    [][\A r \in Reqs, k \in ClientKeys :
         (rpc[r] = "idle" /\ now' = now /\ admission(r, k)) =>
            LET burst == LastN(Log(k), calls)
            IN  (Len(Log(k)) >= calls /\ burst[calls] - burst[1] <= period) =>
                  /\ (\A i \in 1 .. calls : burst[i] >= now - period)
                        => rpc'[r] = "idle" /\ response'.status = 429
                  /\ now > burst[1] + period => rpc'[r] = "call_next"
      ]_vars

\* C2 witness: `calls` requests of a key were admitted within one window and a
\* later one was admitted after the first of them had left the window, while
\* the 429 answered in between is also that key's.
C2_Witness ==
    \E k \in DOMAIN admitted :
        /\ Len(admitted[k]) > calls
        /\ LET n == Len(admitted[k])
           IN  /\ admitted[k][n - 1] - admitted[k][n - calls] <= period
               /\ admitted[k][n] > admitted[k][n - calls] + period
        /\ response = [key |-> k, status |-> 429]

\* The number of the key's admitted timestamps in the closed window [lo, lo + period].
AdmittedWithin(k, lo) ==
    LET In(ts) == ts >= lo /\ ts <= lo + period IN Len(SelectSeq(Log(k), In))

\* C3: whatever the interleaving of requests suspended at call_next, no key
\* holds more than `calls` timestamps and no key is admitted more than
\* `calls` times within any window of `period` seconds.
C3_NoDoubleAdmit ==
    /\ \A k \in DOMAIN requests : Len(requests[k]) <= calls
    /\ \A k \in DOMAIN admitted :
          \A lo \in 0 .. MaxTime : AdmittedWithin(k, lo) <= calls

\* C3 witness: every request in flight is suspended at call_next for one and
\* the same key, whose sequence is full, and a further request of that key
\* has been answered 429.
C3_Witness ==
    \E k \in DOMAIN requests :
        /\ \A r \in Reqs : rpc[r] = "call_next" /\ rkey[r] = k
        /\ MaxInFlight >= 2
        /\ Len(requests[k]) = calls
        /\ response = [key |-> k, status |-> 429]

(***************************************************************************)
(* Claims about VastDbService, checked under SpecVastDb.                   *)
(***************************************************************************)
\* The first connect attempt was made and failed.
FirstConnectFailed == connect_calls >= 1 /\ session = None

\* What a failed operation reports of the cached connection error: its text,
\* or the operation's own default when the text is empty.
CachedFailureMessage(op) ==
    IF connection_error = ""
    THEN IF op = "connect" THEN "Failed to establish VAST Database connection"
         ELSE "VAST Database not available"
    ELSE connection_error

\* C4, as stated: once the first connect attempt has failed, vastdb.connect
\* has been invoked exactly once however many operations followed, and every
\* operation begun after the failure returns a failure whose message is the
\* cached connection error, without opening a transaction.
C4_AsStated ==
    FirstConnectFailed =>
        /\ connect_calls = 1
        /\ \A c \in Callers :
              (dpc[c] = "done" /\ ~dfirst[c]) =>
                 /\ ~dresult[c].success
                 /\ ~dresult[c].transaction
                 /\ dresult[c].message = connection_error

\* C4, amended: as C4_AsStated, for every operation that has returned (the one
\* that made the attempt too), but the message is the cached connection error
\* only when that text is not empty; for an exception without text it is the
\* operation's default message.
C4_CircuitBreaker ==
    FirstConnectFailed =>
        /\ connect_calls = 1
        /\ \A c \in Callers :
              dpc[c] = "done" =>
                 /\ ~dresult[c].success
                 /\ ~dresult[c].transaction
                 /\ dresult[c].message = CachedFailureMessage(dcall[c].op)

\* C4 witness: after the failed attempt an operation that began when the
\* failure was already cached has returned, and so has another one.
C4_Witness ==
    /\ FirstConnectFailed
    /\ connection_error = "connection refused"
    /\ \A c \in Callers : dpc[c] = "done" /\ dresult[c].ensured = "false"
    /\ \E c \in Callers : ~dfirst[c]

\* A required setting is missing or holds a placeholder value.
ConfigurationError ==
    \E var \in RequiredVars : settings[var] \in {None, ""} \cup Placeholders

\* C5: a service constructed without the SDK or with a missing or placeholder
\* required setting never invokes vastdb.connect, and every operation
\* returns a failure.
C5_NoConnectWhenUnusable ==
    (~vastdb_available \/ ConfigurationError) =>
        /\ connect_calls = 0
        /\ session = None
        /\ \A c \in Callers :
              dpc[c] = "done" => ~dresult[c].success /\ ~dresult[c].transaction

\* C5 witness: with the SDK present and a placeholder left in the settings,
\* connect and another operation have both returned.
C5_Witness ==
    /\ vastdb_available
    /\ \E var \in RequiredVars : settings[var] \in Placeholders
    /\ \E c1, c2 \in Callers :
          /\ dpc[c1] = "done" /\ dcall[c1].op = "connect"
          /\ dpc[c2] = "done" /\ dcall[c2].op = "create_table"

\* C6: vastdb.connect is invoked at most once, and the callers that began
\* while the service was uninitialized all observe the one outcome: all were
\* given the session, or all the same cached failure.
C6_SingleConnectAttempt ==
    /\ connect_calls <= 1
    /\ \A c \in Callers :
          (dpc[c] = "done" /\ dfirst[c]) =>
             /\ session # None => dresult[c].ensured = "true"
             /\ session = None =>
                   /\ dresult[c].ensured = "false"
                   /\ dresult[c].message = CachedFailureMessage(dcall[c].op)

\* C6 witness: two callers began while the service was uninitialized, both
\* have returned, and the one attempt failed with an exception without text.
C6_Witness ==
    /\ connect_calls = 1
    /\ connection_error = ""
    /\ \E c1, c2 \in Callers :
          /\ c1 # c2
          /\ dpc[c1] = "done" /\ dfirst[c1]
          /\ dpc[c2] = "done" /\ dfirst[c2]

(***************************************************************************)
(* AuthHandler: the claims                                                 *)
(***************************************************************************)
\* The token the last decode_token was given is the minted one, unaltered.
VerifiedMinted == verdict.how = "minted"

\* The payload of the token the last verdict is about.
VerdictBody == verdict.of[1].token.body

\* The claims encode_token was given for the token the last verdict is about.
VerdictClaims == verdict.of[1].claims

\* C7 as stated: decode_token(encode_token(claims)), called before expiry,
\* returns a map equal to the map that was given to encode_token.
C7_AsStated ==
    (VerifiedMinted /\ verdict.at < VerdictBody.exp)
        => verdict.returned = VerdictClaims

\* C7: decode_token(encode_token(claims)), called before expiry, returns the
\* six claims with the values given to encode_token, together with the two
\* keys encode_token added, exp and iat, as numbers.
C7_RoundTrip ==
    (VerifiedMinted /\ verdict.at < VerdictBody.exp)
        => /\ verdict.kind = "ok"
           /\ DOMAIN verdict.returned = ClaimKeys \cup {"exp", "iat"}
           /\ \A k \in ClaimKeys : verdict.returned[k] = VerdictClaims[k]
           /\ verdict.returned.exp \in Int
           /\ verdict.returned.iat \in Int

\* A token with no tenant was minted and decoded before its expiry.
C7_Witness ==
    /\ VerifiedMinted
    /\ verdict.at < VerdictBody.exp
    /\ VerdictClaims.tenant = None
    /\ verdict.returned # <<>>

C9_SignatureBeforeExpiry ==
    /\ verdict.how \in Presentations \ {"minted"} => verdict.kind = "Invalid token"
    /\ verdict.kind \notin {None, "ok"} => verdict.returned = <<>>

\* A token signed with another secret was refused as invalid after its exp.
C9_Witness ==
    /\ verdict.how = "other secret"
    /\ verdict.at > VerdictBody.exp
    /\ verdict.kind = "Invalid token"
    /\ verdict.returned = <<>>

\* C10 as stated: every minted token has exp = iat + the configured lifetime,
\* whatever the clock does between the readings of encode_token.
C10_AsStated ==
    minted # <<>>
        => minted[1].token.body.exp
               = minted[1].token.body.iat + parse_expires_in(jwt_expires_in).delta

\* The clock moved between the two readings of encode_token.
C10_ClockMoved ==
    /\ minted # <<>>
    /\ minted[1].token.body.exp
           < minted[1].token.body.iat + parse_expires_in(jwt_expires_in).delta

\* The configured lifetime is one _parse_expires_in cannot parse.
Unparseable == parse_expires_in(jwt_expires_in).raises # None

\* C11 as stated: an unparseable JWT_EXPIRES_IN is found when the AuthHandler
\* is constructed, so no encode_token of a constructed handler ever raises the
\* ValueError of the parse.
C11_AsStated == Unparseable => mint_error = None

\* The handler was constructed with an unparseable lifetime and the parse
\* failed inside encode_token, with no token minted.
C11_FoundAtMint ==
    /\ Unparseable
    /\ mint_error = "ValueError"
    /\ minted = <<>>

(***************************************************************************)
(* VastService: the claims                                                 *)
(***************************************************************************)
\* The login POST of an authenticate for a tenant.
LoginRequest(tenant) == Request("POST", token_endpoint(tenant), None)

\* C12: in authenticate nothing but the probe is issued while the probe is
\* awaited; when the probe ends with a response the login POST is issued
\* next, and when it ends with a timeout, a connect error or another error
\* authenticate returns the connectivity failure having issued no POST, and
\* the session cache is as it was.
C12_ProbeBeforeLogin ==
    [][\A c \in SvcCallers, answer \in ProbeAnswers :
          (vpc[c] = "probe" /\ vcall[c].op = "authenticate" /\ probe_returns(c, answer))
              => /\ vsent[c] = <<ProbeRequest>>
                 /\ IF answer.raises = None
                    THEN /\ vpc'[c] = "post"
                         /\ vsent'[c] = <<ProbeRequest, LoginRequest(vcall[c].tenant)>>
                         /\ clients' = clients
                    ELSE /\ vpc'[c] = "idle"
                         /\ vlast'.call = vcall[c]
                         /\ vlast'.sent = <<ProbeRequest>>
                         /\ ~vlast'.result.success
                         /\ vlast'.result.message
                                = "Cannot reach VAST cluster: "
                                      \o connectivity_test(answer, vcall[c].host,
                                                           vcall[c].port).message
                         /\ clients' = clients]_vars

\* An authenticate ended at a probe that timed out, with a session cached
\* before it still there.
C12_Witness ==
    /\ vlast.call.op = "authenticate"
    /\ vlast.sent = <<ProbeRequest>>
    /\ vlast.result.message = "Cannot reach VAST cluster: Connection timeout after 5.0s"
    /\ clients # <<>>

\* A status of the 2xx class.
Is2xx(status) == status >= 200 /\ status < 300

\* The response carries both tokens.
HasBothTokens(answer) ==
    /\ answer.parses
    /\ Truthy(Get(answer.json, "access"))
    /\ Truthy(Get(answer.json, "refresh"))

\* C13 as stated: a login response of status 401 is invalid credentials, 403
\* forbidden, 404 endpoint not found, 500 or more a server error, any other
\* status outside 2xx a generic failure with the body's message, and every 2xx
\* status is handled as a login that succeeded.
C13_AsStated ==
    [][\A c \in SvcCallers, answer \in PostAnswers :
          (answer.raises = None /\ post_returns(c, answer))
              => LET result == vlast'.result
                     status == answer.status
                 IN  IF status = 401 THEN result = Failure("Invalid credentials")
                     ELSE IF status = 403
                     THEN result = Failure("Access forbidden - check user permissions")
                     ELSE IF status = 404
                     THEN result = Failure("VAST API endpoint not found - check host and port")
                     ELSE IF status >= 500
                     THEN result = Failure("VAST server error (" \o str(status) \o ")")
                     ELSE IF Is2xx(status)
                     THEN HasBothTokens(answer) => result.success
                     ELSE /\ ~result.success
                          /\ result.message
                                 = "Authentication failed: "
                                       \o (IF answer.parses /\ answer.json.message # Missing
                                           THEN answer.json.message ELSE answer.text)]_vars

\* A login answered 201 with both tokens was returned as a failure.
C13_CreatedRefused ==
    /\ vlast.call.op = "authenticate"
    /\ Len(vlast.sent) = 2
    /\ vlast.result
           = Failure("Authentication failed: {access=access-1;refresh=refresh-1;}")

\* C14 as stated: a login response of success status that lacks the access
\* token, the refresh token or both makes authenticate return a failure and
\* leaves the session cache as it was.
C14_AsStated ==
    [][\A c \in SvcCallers, answer \in PostAnswers :
          (/\ answer.raises = None
           /\ Is2xx(answer.status)
           /\ ~HasBothTokens(answer)
           /\ post_returns(c, answer))
              => /\ ~vlast'.result.success
                 /\ clients' = clients]_vars

\* A session was cached, and the login returned as a success, with null for
\* the refresh token.
C14_StoredWithoutRefresh ==
    /\ vlast.call.op = "authenticate"
    /\ vlast.result.success
    /\ vlast.result.refreshToken = None
    /\ \E key \in DOMAIN clients : clients[key].refresh_token = None

\* The cache has no entry for (host, port, tenant), or one older than 8 hours.
NoFreshSession(host, port, tenant) ==
    LET key == client_key(host, port, tenant)
    IN  \/ key \notin DOMAIN clients
        \/ (clock - clients[key].created_at) * HoursPerTick > SessionTtlHours

\* C15: get_tenants and get_vip_pools for a key with no entry, or with an
\* entry older than 8 hours, return "No authenticated session found" and issue
\* no request.
C15_FailFast ==
    [][\A c \in SvcCallers, host \in Hosts, port \in Ports, tenant \in Tenants :
          (/\ NoFreshSession(host, port, tenant)
           /\ \/ get_tenants(c, host, port, tenant)
              \/ get_vip_pools(c, host, port, tenant))
              => /\ vpc'[c] = "idle"
                 /\ vsent'[c] = <<>>
                 /\ vlast'.sent = <<>>
                 /\ vlast'.result = Failure("No authenticated session found")]_vars

\* get_vip_pools found an entry older than 8 hours and returned the failure
\* with no request issued.
C15_Witness ==
    /\ vlast.call.op = "get_vip_pools"
    /\ vlast.evicted # None
    /\ vlast.sent = <<>>
    /\ vlast.result = Failure("No authenticated session found")

\* C16 as stated: verify_token for a host and port with no cached session, or
\* only sessions older than 8 hours, fails without issuing a request.
C16_AsStated ==
    [][\A c \in SvcCallers, host \in Hosts, port \in Ports :
          (/\ \A tenant \in Tenants : NoFreshSession(host, port, tenant)
           /\ verify_token(c, "access-1", host, port))
              => /\ vpc'[c] = "idle"
                 /\ vsent'[c] = <<>>]_vars

\* verify_token awaits its GET while the session cache is empty.
C16_RequestWithoutSession ==
    \E c \in SvcCallers :
        /\ vcall[c].op = "verify_token"
        /\ vpc[c] = "get"
        /\ vsent[c] # <<>>
        /\ clients = <<>>

\* C17: get_authenticated_client_info never returns an entry older than 8
\* hours: it returns None and deletes that entry, and no other; an entry of at
\* most 8 hours is returned as it is and the cache is kept.
C17_LazyEviction ==
    [][\A c \in SvcCallers, host \in Hosts, port \in Ports, tenant \in Tenants :
          client_info(c, host, port, tenant)
              => LET key == client_key(host, port, tenant)
                 IN  IF key \notin DOMAIN clients
                     THEN vlast'.info = NoEntry /\ clients' = clients
                     ELSE IF (clock - clients[key].created_at) * HoursPerTick
                                 > SessionTtlHours
                     THEN /\ vlast'.info = NoEntry
                          /\ DOMAIN clients' = DOMAIN clients \ {key}
                          /\ \A k \in DOMAIN clients' : clients'[k] = clients[k]
                     ELSE /\ vlast'.info = clients[key]
                          /\ clients' = clients]_vars

\* An entry of exactly 8 hours was returned and kept.
C17_Witness ==
    /\ vlast.call.op = "get_authenticated_client_info"
    /\ vlast.info # NoEntry
    /\ (clock - vlast.info.created_at) * HoursPerTick = SessionTtlHours
    /\ Lookup(clients, client_key(vlast.call.host, vlast.call.port, vlast.call.tenant))
           = vlast.info

\* C18: the session cache changes only when an authenticate returns success,
\* which sets the entry of its key and no other, or when entries older than 8
\* hours are deleted; every other step, the return of a failed authenticate, of
\* test_connectivity, of verify_token and of get_tenants or get_vip_pools
\* among them, leaves every entry as it was.
C18_CacheFrame ==
    [][clients' # clients
          => \/ \E c \in SvcCallers :
                   LET key == client_key(vcall[c].host, vcall[c].port, vcall[c].tenant)
                   IN  /\ vcall[c].op = "authenticate"
                       /\ vpc[c] = "post"
                       /\ vpc'[c] = "idle"
                       /\ vlast'.result.success
                       /\ DOMAIN clients' = DOMAIN clients \cup {key}
                       /\ \A k \in DOMAIN clients' \ {key} : clients'[k] = clients[k]
             \/ /\ DOMAIN clients' \subseteq DOMAIN clients
                /\ \A k \in DOMAIN clients' : clients'[k] = clients[k]
                /\ \A k \in DOMAIN clients \ DOMAIN clients' :
                      (clock - clients[k].created_at) * HoursPerTick > SessionTtlHours]_vars

\* The live check of verify_token reported the token dead and the sessions
\* are still cached.
C18_Witness ==
    /\ vlast.call.op = "verify_token"
    /\ ~vlast.result.success
    /\ vlast.sent # <<>>
    /\ clients # <<>>

(***************************************************************************)
(* Schema operations: the claims                                           *)
(***************************************************************************)
\* The store answered inside the transaction of the last operation.
StoreAnswered(reply) == reply.result.cause \in {"ok", "SchemaExists", "MissingSchema"}

\* C19 as stated: after a create_schema of a name that returned success, the
\* next create_schema of that name with failIfExists false returns success
\* with a schema descriptor equal in every field to the one of the first call
\* when that call had failIfExists false too, and with failIfExists true it
\* returns the AlreadyExists failure.
C19_AsStated ==
    [][\A schema_name \in SchemaNames :
          (/\ sreply.op = "create_schema"
           /\ sreply.name = schema_name
           /\ sreply.result.success
           /\ \E fail_if_exists \in BOOLEAN : create_schema(schema_name, fail_if_exists)
           /\ StoreAnswered(sreply'))
              => IF sreply'.fail_if_exists
                 THEN /\ ~sreply'.result.success
                      /\ sreply'.result.message = SchemaExistsMessage(schema_name)
                 ELSE /\ sreply'.result.success
                      /\ ~sreply.fail_if_exists
                             => sreply'.result.schema = sreply.result.schema]_vars

\* create_schema with failIfExists false returned success for a name the store
\* already had, at a later reading of the clock than the first.
C19_RepeatedCreate ==
    /\ sreply.op = "create_schema"
    /\ ~sreply.fail_if_exists
    /\ sreply.result.success
    /\ sreply.result.cause = "SchemaExists"
    /\ sreply.result.schema.created # isoformat(0)

\* The last operation was a handler of the API.
ViaApi == sreply.op \in {"api_create_schema", "api_get_schema"}

\* C20 as stated: MissingSchema raised in get_schema is answered 404 and
\* SchemaExists raised in create_schema with failIfExists true is answered
\* 409, and no other failure of these handlers is answered 404 or 409.
C20_AsStated ==
    /\ (sreply.op = "api_get_schema" /\ sreply.result.cause = "MissingSchema")
           => sreply.status = 404
    /\ (sreply.op = "api_create_schema" /\ sreply.result.cause = "SchemaExists")
           => sreply.status = 409
    /\ (ViaApi /\ sreply.status = 404) => sreply.result.cause = "MissingSchema"
    /\ (ViaApi /\ sreply.status = 409) => sreply.result.cause = "SchemaExists"

\* get_schema was answered 404 when the connection to the store had failed
\* and no transaction was opened.
C20_UnreachableAsNotFound ==
    /\ sreply.op = "api_get_schema"
    /\ sreply.status = 404
    /\ sreply.result.cause = "none"
    /\ sreply.result.message = "connection refused"

\* C21 as stated: create_table of a table name the schema already has is
\* answered with the conflict status 409, the status a schema collision is
\* answered with, and leaves the store as it was.
C21_AsStated ==
    [][\A schema_name \in TableSchemaNames, table_name \in TableNames,
          request_columns \in ColumnsChoices :
          (/\ <<schema_name, table_name>> \in DOMAIN tables
           /\ api_create_table(schema_name, table_name, request_columns)
           /\ sreply'.result.cause = "TableExists")
              => /\ sreply'.status = 409
                 /\ tables' = tables
                 /\ bucket' = bucket]_vars

\* create_table of an existing table name was refused with 400 Bad Request.
C21_ConflictAsBadRequest ==
    /\ sreply.op = "api_create_table"
    /\ sreply.result.cause = "TableExists"
    /\ ~sreply.result.success
    /\ sreply.status = 400

\* The column type mapping as the specification gives it.
ClaimedArrowType(type_name) ==
    CASE type_name \in {"string", "utf8"} -> "string"
      [] type_name \in {"int", "int64", "integer"} -> "int64"
      [] type_name = "int32" -> "int32"
      [] type_name \in {"float", "double", "float64"} -> "double"
      [] type_name \in {"boolean", "bool"} -> "bool"
      [] type_name \in {"date", "date32"} -> "date32[day]"
      [] type_name = "timestamp" -> "timestamp[us]"
      [] OTHER -> "string"

\* C22: wherever create_table can call it, the mapping takes every type name
\* to the type the specification says, a name outside the table to text; no
\* create_table fails because of the type name of a column, and the table the
\* store has just created has the mapped types of the columns asked for.
C22_TypeMapping ==
    /\ vastdb_available
          => \A type_name \in TypeNames :
                map_to_arrow_type(type_name) = ClaimedArrowType(type_name)
    /\ sreply.op = "api_create_table"
          => /\ sreply.result.cause # "pa.field"
             /\ sreply.result.success
                   => LET table == sreply.result.schema
                          fields == tables[<<table.schema, table.name>>]
                      IN  /\ DOMAIN fields = DOMAIN table.columns
                          /\ \A i \in DOMAIN fields :
                                fields[i].type = ClaimedArrowType(table.columns[i].type)

\* A table with a column of type "mystery" was created, the column as text.
C22_UnknownTypeAsText ==
    /\ sreply.op = "api_create_table"
    /\ sreply.result.success
    /\ sreply.result.schema.columns[1].type = "mystery"
    /\ <<"a", "t">> \in DOMAIN tables
    /\ tables[<<"a", "t">>][1].type = "string"

(***************************************************************************)
(* Error translation: the claims                                           *)
(***************************************************************************)
\* The handlers of the API that use the store.
StoreApiOps ==
    {"api_list_schemas", "api_create_schema", "api_get_schema", "api_delete_schema",
     "api_create_table", "api_list_tables"}

\* The last operation failed with an exception of the store raised inside
\* its transaction.
StoreFailed ==
    /\ sreply.op \in StoreApiOps
    /\ ~sreply.result.success
    /\ sreply.result.cause \in {"SchemaExists", "MissingSchema", "TableExists", "Exception"}

\* C23 as stated: every failure of a store operation reaches the client as
\* the record handle_vastdb_error makes of the exception the store raised:
\* its status and its message.
C23_AsStated ==
    StoreFailed
        => LET info == handle_vastdb_error(Error(sreply.result.cause,
                                                 sreply.result.message))
           IN  /\ sreply.status = info.status_code
               /\ sreply.result.message = info.message

\* An exception of the store that create_schema does not name reached the
\* client as 400 Bad Request with the text of the exception.
C23_StoreErrorAsBadRequest ==
    /\ sreply.op = "api_create_schema"
    /\ sreply.result.cause = "Exception"
    /\ sreply.status = 400
    /\ sreply.result.message = StoreErrorText

\* The statuses of the kinds Unauthenticated, NotFound, AlreadyExists,
\* InvalidArgument, Forbidden, TooLarge, Unavailable, UpstreamTimeout,
\* UpstreamConnection and Internal.
TaxonomyStatuses == {401, 404, 409, 400, 403, 413, 503, 504, 502, 500}

\* C24 as stated: whatever error handle_vastdb_error is given, it returns a
\* failure record, the same one for the same error, whose status is the status
\* of a kind of the taxonomy.
C24_AsStated ==
    handled.last.handler = "handle_vastdb_error"
        => /\ handled.last.answer = handle_vastdb_error(handled.last.error)
           /\ ~handled.last.answer.success
           /\ handled.last.answer.status_code \in TaxonomyStatuses

\* A NotSupported failure was translated to 501 Not Implemented.
C24_NotImplemented ==
    /\ handled.last.handler = "handle_vastdb_error"
    /\ handled.last.error.type = "NotSupported"
    /\ handled.last.answer.status_code = 501

\* handle_vastdb_error was given an error of a class it does not name.
Unclassified(h) ==
    /\ h.handler = "handle_vastdb_error"
    /\ h.error.type \notin VastDbErrorTypes

\* C25: an error of a class handle_vastdb_error does not name is answered with
\* status 500 and the one message "An unexpected error occurred", so two such
\* errors of different classes and texts get identical answers.
C25_GenericInternal ==
    /\ Unclassified(handled.last)
          => handled.last.answer = ErrorInfo("An unexpected error occurred", 500)
    /\ (Unclassified(handled.last) /\ Unclassified(handled.before))
          => handled.last.answer = handled.before.answer

\* Two unclassified errors of different classes and texts were translated.
C25_Witness ==
    /\ Unclassified(handled.last)
    /\ Unclassified(handled.before)
    /\ handled.last.error.type # handled.before.error.type
    /\ handled.last.error.text # handled.before.error.text

\* C26 as stated: a store operation of the API that found the store unusable
\* (not configured, SDK missing, or no connection to be had) is answered 503.
C26_AsStated ==
    (sreply.op \in StoreApiOps /\ sreply.result.cause = "none")
        => sreply.status = 503

\* create_schema was answered 400 Bad Request when the store was unusable.
C26_UnusableAsBadRequest ==
    /\ sreply.op = "api_create_schema"
    /\ sreply.result.cause = "none"
    /\ sreply.status = 400

\* The exception was answered by general_exception_handler.
ByGeneralHandler(h) == h.handler = "Exception"

\* C28: general_exception_handler answers with status 500 and the error
\* "Internal server error"; outside development the content has neither the
\* text of the exception nor the traceback, and two different exceptions get
\* identical responses.
C28_GenericOutsideDevelopment ==
    /\ ByGeneralHandler(handled.last)
          => /\ handled.last.answer.status_code = 500
             /\ handled.last.answer.content.error = "Internal server error"
             /\ node_env # "development"
                   => /\ handled.last.answer.content.details = Missing
                      /\ handled.last.answer.content.traceback = Missing
    /\ (ByGeneralHandler(handled.last) /\ ByGeneralHandler(handled.before)
        /\ node_env # "development")
          => handled.last.answer = handled.before.answer

\* Outside development and production, two exceptions of different classes
\* and texts were answered by general_exception_handler.
C28_Witness ==
    /\ node_env = "staging"
    /\ ByGeneralHandler(handled.last)
    /\ ByGeneralHandler(handled.before)
    /\ handled.last.error.type # handled.before.error.type
    /\ handled.last.error.text # handled.before.error.text

Held(reqs, k) == IF k \in DOMAIN reqs THEN reqs[k] ELSE <<>>

\* The step is a dispatch that admitted a request of client key k: a request
\* went on to call_next under that key.
AdmittedStep(k) ==
    \E r \in Reqs : rpc[r] = "idle" /\ rpc'[r] = "call_next" /\ rkey'[r] = k

\* The step is a dispatch that rejected a request of client key k: 429 is
\* the answer to k while no request moved and the clock stood.
RejectedStep(k) ==
    rpc' = rpc /\ now' = now /\ response' = [key |-> k, status |-> 429]

\* C30: a dispatch for client key k changes only k's timestamp sequence, the
\* sequences of all other keys stay as they are; and whether the request of
\* k is admitted is decided by k's own admitted timestamps and the time
\* alone, so a key with room in its window is admitted whatever the other
\* keys hold.
C30_KeyFrame ==
    [][\A k \in ClientKeys :
         /\ (Held(requests', k) # Held(requests, k) \/ Held(admitted', k) # Held(admitted, k))
               => AdmittedStep(k) \/ RejectedStep(k)
         /\ (AdmittedStep(k) \/ RejectedStep(k)) =>
               /\ \A k2 \in ClientKeys \ {k} :
                     /\ Held(requests', k2) = Held(requests, k2)
                     /\ Held(admitted', k2) = Held(admitted, k2)
               /\ AdmittedStep(k) <=> Len(InWindow(Held(admitted, k), now)) < calls
      ]_vars

\* C30 witness: a request of one key was admitted at a time when another key
\* had used up its budget: that key holds `calls` timestamps, all inside the
\* window and all earlier than the admission, and was answered 429.
C30_Witness ==
    \E k \in ClientKeys, k2 \in ClientKeys :
        /\ k # k2
        /\ response = [key |-> k2, status |-> 429]
        /\ Len(Held(requests, k2)) = calls
        /\ \A i \in 1 .. calls : requests[k2][i] >= now - period /\ requests[k2][i] < now
        /\ Held(admitted, k) # <<>>
        /\ admitted[k][Len(admitted[k])] = now
        /\ \E r \in Reqs : rpc[r] = "call_next" /\ rkey[r] = k


C37_BoundaryCounts ==
    \A k \in DOMAIN admitted :
        LET log == admitted[k]
            gone == Len(log) - Len(Held(requests, k))
        IN  /\ gone >= 0
            /\ \A i \in 1 .. gone : log[i] < now - period
            /\ \A i \in 1 .. Len(log) - calls : log[i + calls] > log[i] + period

\* C37 witness: a key with `calls` admissions at one time t was answered 429
\* at exactly t + period, its deque still holding all of them.
C37_Witness ==
    \E k \in DOMAIN requests :
        /\ response = [key |-> k, status |-> 429]
        /\ Len(requests[k]) = calls
        /\ \A i \in 1 .. calls : requests[k][i] = now - period
        /\ \A r \in Reqs : rpc[r] = "idle"

(***************************************************************************)
(* The client key of a request, checked under SpecClientKeys.              *)
(***************************************************************************)
\* The first comma-separated address of a header, without the blanks around it.
FirstAddress(header) ==
    LET commas == {i \in 1 .. Len(header) : header[i] = ","}
        stop == IF commas = {} THEN Len(header) + 1
                ELSE CHOOSE i \in commas : \A j \in commas : i <= j
        first == SubSeq(header, 1, stop - 1)
        inked == {i \in 1 .. Len(first) : first[i] # " "}
    IN  IF inked = {} THEN <<>>
        ELSE SubSeq(first, CHOOSE i \in inked : \A j \in inked : i <= j,
                           CHOOSE i \in inked : \A j \in inked : i >= j)

HasHeader(request) == request.forwarded # Absent /\ request.forwarded # <<>>

\* The key the requests of this shape are to be counted under.
ClaimedKey(request) ==
    IF HasHeader(request) THEN FirstAddress(request.forwarded)
    ELSE IF request.client # Absent THEN request.client
    ELSE Unknown

\* C39: a request is counted under the first comma-separated address of its
\* X-Forwarded-For header, trimmed, when the header is present and not empty,
\* else under its peer address, else under "unknown": the dispatch of a
\* request admits or rejects it under that key; requests with neither header
\* nor peer share the key "unknown", and requests of one peer whose first
\* forwarded addresses differ have different keys.
C39_ClientKey ==
    [][/\ \A r \in Reqs, request \in KeyRequests :
            (rpc[r] = "idle" /\ dispatch(r, request))
               => AdmittedStep(ClaimedKey(request)) \/ RejectedStep(ClaimedKey(request))
       /\ \A q1 \in KeyRequests, q2 \in KeyRequests :
            /\ (~HasHeader(q1) /\ q1.client = Absent) => get_client_ip(q1) = Unknown
            /\ (/\ HasHeader(q1) /\ HasHeader(q2) /\ q1.client = q2.client
                /\ FirstAddress(q1.forwarded) # FirstAddress(q2.forwarded))
                  => get_client_ip(q1) # get_client_ip(q2)
      ]_vars

\* C39 witness: the budget of address "b" is used up and a request was
\* answered 429 under it, while the peer address "a" has its own admissions
\* and "unknown" has one.
C39_Witness ==
    /\ response = [key |-> <<"b">>, status |-> 429]
    /\ Len(Held(requests, <<"b">>)) = calls
    /\ Held(requests, <<"a">>) # <<>>
    /\ Len(Held(requests, Unknown)) = 1

(***************************************************************************)
(* The lifetime setting, checked under SpecLifetimes.                      *)
(***************************************************************************)
RECURSIVE Horner(_, _)
\* The number a text of digits is the numeral of, read from the left.
Horner(text, sofar) ==
    IF text = <<>> THEN sofar
    ELSE Horner(Tail(text),
                10 * sofar + CHOOSE d \in 0 .. 9 : Digits[d + 1] = Head(text))

\* The integers a text is the numeral of: one, or none.
IntegersOf(text) ==
    LET negative == text # <<>> /\ text[1] = "-"
        digits == IF negative THEN Tail(text) ELSE text
        numeral == /\ digits # <<>>
                   /\ \A i \in 1 .. Len(digits) : \E d \in 0 .. 9 : Digits[d + 1] = digits[i]
    IN  IF ~numeral THEN {}
        ELSE IF negative THEN {0 - Horner(digits, 0)} ELSE {Horner(digits, 0)}

\* The lifetime a setting stands for, in minutes per unit of its last
\* character: the numeric part and the minutes of one unit.
UnitOf(text) ==
    IF text # <<>> /\ text[Len(text)] \in {"h", "m", "d"}
    THEN [numeric |-> SubSeq(text, 1, Len(text) - 1),
          minutes |-> CASE text[Len(text)] = "h" -> 60
                        [] text[Len(text)] = "m" -> 1
                        [] text[Len(text)] = "d" -> 1440]
    ELSE [numeric |-> text, minutes |-> 60]

\* C38: "<n>h" stands for n hours, "<n>m" for n minutes, "<n>d" for n days
\* and a text without such a suffix for that many hours; a text whose numeric
\* part is no integer gives an error, never a default lifetime: encode_token
\* then raises and stamps no exp.
C38_LifetimeBySuffix ==
    payload # <<>> =>
        LET unit == UnitOf(jwt_expires_in)
            numbers == IntegersOf(unit.numeric)
        IN  IF numbers = {}
            THEN /\ mint_error = "ValueError"
                 /\ "exp" \notin DOMAIN payload
                 /\ minted = <<>>
            ELSE /\ mint_error = None
                 /\ \A n \in numbers : payload.exp = DateTime(utc + n * unit.minutes)

\* C38 witness: a token was minted with a lifetime of days.
C38_Witness ==
    /\ minted # <<>>
    /\ jwt_expires_in = <<"1", "2", "d">>
    /\ minted[1].token.body.exp = 12 * 1440

\* encode_token raised for a setting that ends in a unit letter whose numeric
\* part is no integer.
C38_WitnessError ==
    /\ payload # <<>>
    /\ jwt_expires_in = <<"x", "1", "h">>
    /\ mint_error = "ValueError"

(***************************************************************************)
(* The store connection state, checked under SpecVastDb.                   *)
(***************************************************************************)
\* The state of the store connection, read off the fields of the service.
ConnectionState ==
    IF ~vastdb_available THEN "sdk-unavailable"
    ELSE IF session # None THEN "connected"
    ELSE IF connection_attempted THEN "connect-failed"
    ELSE IF connection_error # None /\ connection_error # "" THEN "configuration-error"
    ELSE "uninitialized"

\* C34: the connection state only moves forward: it changes only from
\* uninitialized, to connected or to connect-failed, and exactly by an
\* invocation of vastdb.connect, of which there is one at most; in every
\* other state the session, the cached error and the state stay as they are,
\* whatever operations run and however the store answers them.
C34_ForwardOnly ==
    [][/\ ConnectionState # "uninitialized"
             => /\ ConnectionState' = ConnectionState
                /\ session' = session
                /\ connection_error' = connection_error
                /\ connect_calls' = connect_calls
       /\ ConnectionState = "uninitialized"
             => ConnectionState' \in {"uninitialized", "connected", "connect-failed"}
       /\ (ConnectionState' # ConnectionState) <=> (connect_calls' = connect_calls + 1)
       /\ connect_calls' <= 1
      ]_vars

\* C34 witness: connected by the one connect attempt, an operation on the
\* session failed in the store, and an operation of another caller, begun
\* once connected, ran on the same session with success.
C34_Witness ==
    /\ ConnectionState = "connected"
    /\ connect_calls = 1
    /\ \E c \in Callers, d \in Callers :
          /\ c # d
          /\ dpc[c] = "done" /\ dresult[c].transaction /\ ~dresult[c].success
          /\ dpc[d] = "done" /\ dresult[d].transaction /\ dresult[d].success
          /\ ~dfirst[d]

\* ---------------------------------------------------------------------------
\* C36
\* ---------------------------------------------------------------------------

\* The key of the session an operation of the service works on.
KeyOf(call) == client_key(call.host, call.port, call.tenant)

\* The step ends an authenticate with success.
LoginCompletes == vlast'.call.op = "authenticate" /\ vlast'.result.success

\* Caller c starts a listing in this step and is suspended at its GET.
IssuesListing(c) ==
    /\ vpc[c] = "idle"
    /\ vpc'[c] = "get"
    /\ vcall'[c].op \in {"get_tenants", "get_vip_pools"}

\* C36: the session cache is keyed by host, port and tenant only, so it has
\* one entry per key whoever logged in; a login that completes with success
\* leaves under its key the entry of its own user and access token, replacing
\* what another user's login left there; the cache changes in no other step
\* than such a completion or an eviction; and a get_tenants or get_vip_pools
\* that issues its GET sends the access token of the entry cached at that
\* moment, which is therefore the one of the login that completed last.
C36_LastLoginWins ==
    [][/\ DOMAIN clients' \subseteq
              {client_key(h, p, t) : h \in Hosts, p \in Ports, t \in Tenants}
       /\ LoginCompletes
              => /\ KeyOf(vlast'.call) \in DOMAIN clients'
                 /\ clients'[KeyOf(vlast'.call)].username = vlast'.call.username
                 /\ clients'[KeyOf(vlast'.call)].access_token = vlast'.result.accessToken
                 /\ \A k \in DOMAIN clients \ {KeyOf(vlast'.call)} :
                        k \in DOMAIN clients' /\ clients'[k] = clients[k]
       /\ clients' # clients => LoginCompletes \/ vlast'.evicted # None
       /\ \A c \in LoginCallers :
              IssuesListing(c)
                  => /\ KeyOf(vcall'[c]) \in DOMAIN clients
                     /\ vsent'[c][1].bearer = clients[KeyOf(vcall'[c])].access_token
      ]_vars

\* Alice's login completed and a listing went out with her token; Bob's login
\* to the same cluster and tenant completed after it and replaced the entry; a
\* second listing then went out with Bob's token.
C36_Witness ==
    /\ vpc = [c \in LoginCallers |-> "get"]
    /\ vcall[1].op = "get_tenants" /\ vcall[2].op = "get_vip_pools"
    /\ KeyOf(vcall[1]) = KeyOf(vcall[2])
    /\ vsent[1][1].bearer = TokenOf("alice")
    /\ vsent[2][1].bearer = TokenOf("bob")
    /\ clients[KeyOf(vcall[1])].username = "bob"
    /\ clients[KeyOf(vcall[1])].access_token = TokenOf("bob")

\* ---------------------------------------------------------------------------
\* C33
\* ---------------------------------------------------------------------------

\* The routes of the schema controller that declare Depends(get_current_user).
ProtectedRoutes ==
    {"api_get_connection_info", "api_list_schemas", "api_create_schema",
     "api_get_schema", "api_delete_schema", "api_create_table", "api_list_tables"}

\* The token verifies at the time `at`: it names the handler's algorithm, it
\* is signed with the handler's secret, and its exp is still ahead.
Verifies(token, at) ==
    /\ token.header.alg = Algorithm
    /\ token.signature = Sign(token.header, token.body, Secret)
    /\ ~("exp" \in DOMAIN token.body /\ token.body.exp <= at)

\* The user record of a token: the six fields, each as the payload has it.
UserOf(token) ==
    [kind |-> "ok",
     returned |-> [k \in ClaimKeys |->
                     IF k \in DOMAIN token.body THEN token.body[k] ELSE None]]

\* The step serves a request.
Serves == served'.n = served.n + 1

\* C33: every request served on a route that declares the user dependency
\* either presented a token that verifies, and then the handler ran with the
\* whole user record of that token, or presented one that does not, expired or
\* invalid alike, and then the response is 401 "Could not validate
\* credentials", no user record exists, and the handler did not run: the store,
\* the connection and the last reply of a handler are as before. On the route
\* with the optional dependency the same tokens give no user, not an error.
C33_DependencyGuardsHandlers ==
    [][Serves /\ served'.how # None
         => LET token == Presented(minted[1].token, served'.how)
            IN  /\ (served'.route \in ProtectedRoutes /\ Verifies(token, utc))
                      => /\ served'.user = UserOf(token)
                         /\ sreply'.op = served'.route
                         /\ served'.status = sreply'.status
                         /\ served'.status # 401
                /\ (served'.route \in ProtectedRoutes /\ ~Verifies(token, utc))
                      => /\ served'.status = 401
                         /\ served'.detail = "Could not validate credentials"
                         /\ served'.user.kind # "ok"
                         /\ served'.user.returned = <<>>
                         /\ UNCHANGED <<session, connection_error, connection_attempted,
                                        connect_calls, bucket, tables, sreply>>
                /\ served'.route = "get_current_user_info"
                      => served'.user = IF Verifies(token, utc) THEN UserOf(token)
                                        ELSE NoUser
      ]_vars

\* The minted token created schema "a" while it was valid; presented again
\* after its expiry for the deletion it is refused with 401 and the schema is
\* still there.
C33_Witness ==
    /\ served.route = "api_delete_schema"
    /\ served.how = "minted"
    /\ served.status = 401
    /\ minted # <<>>
    /\ ~Verifies(minted[1].token, utc)
    /\ "a" \in bucket

\* A token signed with another secret is refused with the same 401.
C33_WitnessInvalid ==
    /\ served.route \in ProtectedRoutes
    /\ served.how = "other secret"
    /\ served.status = 401
    /\ served.detail = "Could not validate credentials"

\* The optional dependency gave no user for an expired token.
C33_WitnessOptional ==
    /\ served.route = "get_current_user_info"
    /\ served.how = "minted"
    /\ served.user = NoUser
    /\ minted # <<>>
    /\ ~Verifies(minted[1].token, utc)

\* ---------------------------------------------------------------------------
\* C32
\* ---------------------------------------------------------------------------

\* What lies downstream of the rate limiter: the requests served with their
\* dependency's outcome, token verification and minting, the service of the
\* remote cluster with its session cache, the store connection, the store and
\* the handlers' replies.
Downstream ==
    <<served, authn, verdict, minted, mint_error, svcvars, session, connection_error,
      connection_attempted, connect_calls, bucket, tables, sreply>>

\* The step is a dispatch that answered 429.
RejectedNow ==
    /\ response'.status = 429
    /\ rpc' = rpc
    /\ response' # response \/ requests' # requests

\* The requests suspended at call_next.
InFlight(at) == {r \in Reqs : at[r] = "call_next"}

RECURSIVE TotalLogged(_, _)
TotalLogged(log, keys) ==
    IF keys = {} THEN 0
    ELSE LET k == CHOOSE x \in keys : TRUE
         IN  Len(log[k]) + TotalLogged(log, keys \ {k})

\* C32: the rate limiter comes first. A dispatch that answers 429 leaves
\* everything downstream as it was: no token is verified or minted, the remote
\* cluster's service and session cache, the store connection and the store
\* are untouched. Whatever happens downstream happens in a step of one request
\* that is suspended at call_next, whose admission is already in the log of its
\* client key; and the requests served and in flight are exactly as many as
\* the admissions recorded.
C32_AdmissionFirst ==
    [][/\ RejectedNow => UNCHANGED Downstream
       /\ Downstream' # Downstream
             => \E r \in Reqs :
                   /\ rpc[r] = "call_next"
                   /\ rkey[r] \in DOMAIN admitted
                   /\ admitted[rkey[r]] # <<>>
                   /\ \A other \in Reqs \ {r} : rpc'[other] = rpc[other]
       /\ served'.n + Cardinality(InFlight(rpc')) = TotalLogged(admitted', DOMAIN admitted')
      ]_vars

\* The first client logged in and created schema "a" over one connect
\* attempt, which used up its budget; its next request was answered 429 while
\* an admitted request of the other client waits at call_next.
C32_Witness ==
    /\ response.status = 429
    /\ response.key \in DOMAIN requests
    /\ Len(requests[response.key]) = calls
    /\ served.n = 2
    /\ served.route = "api_create_schema"
    /\ "a" \in bucket
    /\ connect_calls = 1
    /\ InFlight(rpc) # {}

\* ---------------------------------------------------------------------------
\* C35
\* ---------------------------------------------------------------------------

\* C35: a request to the schemas health route is served without credentials
\* and without a user; with the store configured and the service still
\* uninitialized it makes the one invocation of vastdb.connect and leaves the
\* service connected or connect-failed. Every request served afterwards with
\* a verified token on a protected route meets that state: after a failed
\* attempt it is answered the cached failure, with no further connect attempt
\* and the store untouched; after a successful one it runs on that session.
C35_HealthConnects ==
    [][/\ (Serves /\ served'.route = "schemas_health")
             => /\ served'.how = None
                /\ served'.user = NoUser
                /\ served'.status = 200
                /\ ConnectionState = "uninitialized"
                      => /\ connect_calls' = connect_calls + 1
                         /\ ConnectionState' \in {"connected", "connect-failed"}
       /\ (/\ Serves
           /\ served'.route \in ProtectedRoutes
           /\ served'.user.kind = "ok"
           /\ ConnectionState = "connect-failed")
             => /\ ~sreply'.result.success
                /\ sreply'.result.message
                      = OrDefault(connection_error, UnavailableDefault(sreply'.op))
                /\ UNCHANGED <<session, connection_error, connection_attempted,
                               connect_calls, bucket, tables>>
       /\ (/\ Serves
           /\ served'.route \in ProtectedRoutes
           /\ served'.user.kind = "ok"
           /\ ConnectionState = "connected")
             => UNCHANGED <<session, connection_error, connection_attempted, connect_calls>>
       /\ connect_calls' <= 1
      ]_vars

\* The first request the application served is a health request, before any
\* login and any token, and it made the connect attempt, which failed.
C35_Witness ==
    /\ served.n = 1
    /\ served.route = "schemas_health"
    /\ minted = <<>>
    /\ clients = <<>>
    /\ connect_calls = 1
    /\ ConnectionState = "connect-failed"
    /\ sreply.op = "schemas_health"
    /\ ~sreply.result.success

\* A schema listing with a verified token is answered the failure of a connect
\* attempt it did not make: the attempt was over when the token was minted.
C35_WitnessObserved ==
    /\ served.route = "api_list_schemas"
    /\ served.user.kind = "ok"
    /\ served.n = MaxServed
    /\ ConnectionState = "connect-failed"
    /\ connect_calls = 1
    /\ ~sreply.result.success
    /\ sreply.result.cause = "none"

\* ---------------------------------------------------------------------------
\* C31
\* ---------------------------------------------------------------------------

\* The claims of a token, as its payload holds them.
ClaimsOf(token) == [k \in ClaimKeys |-> token.body[k]]

\* C31: a login is answered in the step in which its own call of
\* vast_service.authenticate returns. When that result is a failure, whether
\* the probe or the login POST failed, the answer is 401 with the message of
\* the result and no token is minted. When it is a success the token minted
\* is valid, and next to exp and iat it holds six claims: username, host,
\* port and tenant of the request and the access and refresh token of that
\* result, which are the ones the cluster issued to this user; or, when the
\* lifetime setting cannot be read, no token is minted and the answer is 500.
\* No token is minted in any other step.
C31_MintAfterAuthenticate ==
    [][/\ (Serves /\ served'.route = "login")
             => /\ vlast'.call.op = "authenticate"
                /\ ~vlast'.result.success
                      => /\ served'.status = 401
                         /\ served'.detail = vlast'.result.message
                         /\ minted' = minted
                /\ vlast'.result.success
                      => \/ /\ served'.status = 200
                            /\ minted' # <<>>
                            /\ Verifies(minted'[1].token, utc)
                            /\ DOMAIN minted'[1].token.body = ClaimKeys \cup {"exp", "iat"}
                            /\ ClaimsOf(minted'[1].token)
                                  = [username |-> vlast'.call.username,
                                     vastHost |-> vlast'.call.host,
                                     vastPort |-> vlast'.call.port,
                                     tenant |-> vlast'.call.tenant,
                                     accessToken |-> vlast'.result.accessToken,
                                     refreshToken |-> vlast'.result.refreshToken]
                            /\ vlast'.result.accessToken = TokenOf(vlast'.call.username)
                         \/ /\ served'.status = 500
                            /\ served'.detail = "Login failed"
                            /\ parse_expires_in(jwt_expires_in).raises # None
                            /\ minted' = minted
       /\ minted' # minted
             => /\ Serves
                /\ served'.route = "login"
                /\ served'.status = 200
                /\ vlast'.result.success
      ]_vars

\* Bob's login was answered with a token that holds his access token while
\* Alice's login to the same cluster and tenant is suspended at its POST.
C31_Witness ==
    /\ served.route = "login"
    /\ served.status = 200
    /\ minted # <<>>
    /\ ClaimsOf(minted[1].token).username = "bob"
    /\ ClaimsOf(minted[1].token).accessToken = TokenOf("bob")
    /\ \E r \in LoginCallers : vpc[r] = "post" /\ vcall[r].username = "alice"

\* A login whose probe failed was answered 401 and there is no token.
C31_WitnessRefused ==
    /\ served.route = "login"
    /\ served.status = 401
    /\ vlast.call.op = "authenticate"
    /\ Len(vlast.sent) = 1
    /\ minted = <<>>

=============================================================================
